---- MODULE Spec2Model ----
(***************************************************************************)
(* State-machine model of the axiom-agent HTTP surface (src/app.py) and    *)
(* the engine behind it (src/agent.py, src/tools/*.py).                    *)
(*                                                                         *)
(* Texts whose structure matters (commands, argument values) are sequences *)
(* of one-character strings; texts of which only the size matters (user    *)
(* messages, model output, tool output) are carried by their character     *)
(* count.  Identifiers produced by uuid.uuid4() are pairs <<"uuid", n>>     *)
(* drawn from a counter, identifiers typed by a client are pairs           *)
(* <<"client", n>>.                                                         *)
(***************************************************************************)
EXTENDS Integers, Sequences, FiniteSets, TLC

VARIABLES
    sessions,              \* app.py: sessions, session_id -> AIAgent
    interaction_requests,  \* app.py: interaction_id -> {session_id, completed, created_at}
    continuation_flags,    \* app.py: session_id -> bool
    now,                   \* time.time()
    uuid_counter,          \* number of uuid4() values handed out so far
    calls,                 \* number of /api/chat requests served so far
    consumed,              \* interaction ids whose completion went through (history)
    last,                  \* the latest request, its response and what the handler did
    inflight,              \* request thread -> where it is in chat() and its locals
    pure                   \* a function of the program, its argument and its results

vars == <<sessions, interaction_requests, continuation_flags, now, uuid_counter, calls,
          consumed, last, inflight, pure>>

---------------------------------------------------------------------------
(* Bounds of the model *)

MaxCalls == 2          \* requests served in a run of Spec
DeepCalls == 3         \* requests served in a run of SpecDeep
MaxSessions == 1
CrossSessions == 2     \* sessions alive at once in a run of SpecCross
TickLen == 1800
MaxNow == 3600
MaxMsgs == 3
MaxThreads == 2
ThreadCalls == 3

(* Program constants *)

INTERACTION_TTL == 1800
max_tokens == 16000
max_retries == 3
RESULT_CAP == 4000

---------------------------------------------------------------------------
(* Generic helpers *)

RECURSIVE SumLen(_)
SumLen(msgs) == IF msgs = <<>> THEN 0 ELSE Head(msgs).len + SumLen(Tail(msgs))

RemoveAt(s, i) == SubSeq(s, 1, i - 1) \o SubSeq(s, i + 1, Len(s))

Count(s, e) == Cardinality({i \in DOMAIN s : s[i] = e})

Str(s) == s   \* a text given as a sequence of one-character strings

NoneId == <<"none", 0>>
Uuid(n) == <<"uuid", n>>

---------------------------------------------------------------------------
(* Texts carried by their size *)

CONTINUE_TEXT == "continue_task"     \* the fixed input "继续执行任务"
UserTexts == {"hi"}                  \* what a human types
EmptyText == ""

TextLen(t) ==
    CASE t = "hi" -> 2
      [] t = CONTINUE_TEXT -> 6
      [] OTHER -> 0

SeqLen(s) == Len(s)

---------------------------------------------------------------------------
(* DialogueManager (src/agent.py) *)

\* A message is kept as its role, what it holds and the length of its content.
Message(role, what, len) == [role |-> role, what |-> what, len |-> len]

system_prompt_len == 2000

add_system_message(a) ==
    [a EXCEPT !.messages =
        Append(@, Message("system", "system_prompt", system_prompt_len))]

add_user_message(a, content) ==
    [a EXCEPT !.messages =
        Append(@, Message("user", content, TextLen(content)))]

add_assistant_message(a, len) ==
    [a EXCEPT !.messages =
        Append(@, Message("assistant", "model_output", len))]

total_tokens(msgs) == SumLen(msgs) \div 4

\* a search of the for loop that finds no message to pop
NonSystem_none(msgs) == {}

NonSystem(msgs) == {i \in DOMAIN msgs : msgs[i].role # "system"}

FirstNonSystem(msgs) == CHOOSE i \in NonSystem(msgs) : \A j \in NonSystem(msgs) : i <= j

\* A trim that pops the oldest message whatever its role.
RECURSIVE trim_history_oldest(_)
trim_history_oldest(msgs) ==
    IF total_tokens(msgs) > max_tokens /\ Len(msgs) > 2
    THEN trim_history_oldest(Tail(msgs))
    ELSE msgs

\* A trim that, once over the ceiling, keeps only the system message and the newest.
trim_history_greedy(msgs) ==
    IF total_tokens(msgs) > max_tokens /\ Len(msgs) > 2
    THEN <<msgs[1], msgs[Len(msgs)]>>
    ELSE msgs

\* A trim that pops before it measures.
RECURSIVE trim_history_eager(_)
trim_history_eager(msgs) ==
    IF Len(msgs) > 2 /\ NonSystem(msgs) # {}
    THEN LET popped == RemoveAt(msgs, FirstNonSystem(msgs))
         IN  IF total_tokens(popped) > max_tokens THEN trim_history_eager(popped)
             ELSE popped
    ELSE msgs

\* The while loop of _trim_history.  With no non-system message left to pop the
\* loop body changes nothing; the model then leaves the history as it is.
RECURSIVE trim_history(_)
trim_history(msgs) ==
    IF total_tokens(msgs) > max_tokens /\ Len(msgs) > 2 /\ NonSystem(msgs) # {}
    THEN trim_history(RemoveAt(msgs, FirstNonSystem(msgs)))
    ELSE msgs

\* The conversation at each test of the while condition, from the first test to
\* the last one the loop reaches; a body that pops nothing repeats its test forever
\* and the list stops there.
RECURSIVE trim_tests(_)
trim_tests(msgs) ==
    IF total_tokens(msgs) > max_tokens /\ Len(msgs) > 2 /\ NonSystem(msgs) # {}
    THEN <<msgs>> \o trim_tests(RemoveAt(msgs, FirstNonSystem(msgs)))
    ELSE <<msgs>>

RECURSIVE Digits(_)
Digits(n) == IF n < 10 THEN 1 ELSE 1 + Digits(n \div 10)

\* len("\n... [内容已截断，共 {n} 字符]")
truncation_marker_len(n) == 18 + Digits(n)

result_text_len(rlen) ==
    IF rlen > RESULT_CAP THEN RESULT_CAP + truncation_marker_len(rlen) ELSE rlen

DigitChar(d) ==
    CASE d = 0 -> "0" [] d = 1 -> "1" [] d = 2 -> "2" [] d = 3 -> "3" [] d = 4 -> "4"
      [] d = 5 -> "5" [] d = 6 -> "6" [] d = 7 -> "7" [] d = 8 -> "8" [] OTHER -> "9"

\* the decimal text of n, as the f-string writes it
RECURSIVE Decimal(_)
Decimal(n) ==
    IF n < 10 THEN <<DigitChar(n)>> ELSE Append(Decimal(n \div 10), DigitChar(n % 10))

\* "\n... [内容已截断，共 " and " 字符]", one element per character (the Chinese
\* characters by their reading)
MARKER_HEAD ==
    <<"\n", ".", ".", ".", " ", "[", "nei", "rong", "yi", "jie", "duan", "comma", "gong", " ">>
MARKER_TAIL == <<" ", "zi", "fu", "]">>

\* a cap test that already truncates a text of exactly the cap's length
result_text_at_cap(text) ==
    IF Len(text) >= RESULT_CAP
    THEN (SubSeq(text, 1, RESULT_CAP) \o MARKER_HEAD) \o (Decimal(Len(text)) \o MARKER_TAIL)
    ELSE text

\* lines 253-255 on the characters of str(result["result"])
result_text(text) ==
    IF Len(text) > RESULT_CAP
    THEN (SubSeq(text, 1, RESULT_CAP) \o MARKER_HEAD) \o (Decimal(Len(text)) \o MARKER_TAIL)
    ELSE text

RECURSIVE ArgsLen(_, _)
ArgsLen(args, keys) ==
    IF keys = {} THEN 2
    ELSE LET k == CHOOSE x \in keys : TRUE
         IN  6 + SeqLen(args[k]) + ArgsLen(args, keys \ {k})

\* a recording that sets the flag only for a successful result
add_tool_result_success_only(a, tool_call, result) ==
    LET tool_name == tool_call.name
        hasInput == tool_name = "interact" /\ result.user_input # EmptyText
        len == 20 + ArgsLen(tool_call.args, DOMAIN tool_call.args)
                  + result_text_len(result.rlen)
                  + (IF hasInput THEN 7 + TextLen(result.user_input) ELSE 0)
        msg == Message("user", "tool_result", len)
    IN  [a EXCEPT !.last_tool_was_info = (tool_name = "info" /\ result.success),
                  !.messages = trim_history(Append(@, msg))]

\* result = [success, rlen, exit, user_input]; user_input = "" when the result has none
add_tool_result(a, tool_call, result) ==
    LET tool_name == tool_call.name
        hasInput == tool_name = "interact" /\ result.user_input # EmptyText
        len == 20 + ArgsLen(tool_call.args, DOMAIN tool_call.args)
                  + result_text_len(result.rlen)
                  + (IF hasInput THEN 7 + TextLen(result.user_input) ELSE 0)
        msg == Message("user", "tool_result", len)
    IN  [a EXCEPT !.last_tool_was_info = (tool_name = "info"),
                  !.messages = trim_history(Append(@, msg))]

\* a flag read that never reports an informational tool
was_last_tool_info_never(a) == FALSE

was_last_tool_info(a) == a.last_tool_was_info

---------------------------------------------------------------------------
(* The sensitive-command gate used by the execute tool (src/tools/execute.py) *)

current_os == "linux"

\* security.json as deployed: an ordered list of {pattern, description, os}
sensitive_commands ==
    << [pattern |-> <<"r","m">>, description |-> "delete files", os |-> {"linux", "darwin"}],
       [pattern |-> <<"f","o","r","m","a","t">>, description |-> "format disk", os |-> {"windows"}],
       [pattern |-> <<"S","U","D","O">>, description |-> "run as root", os |-> {}] >>

LowerChar(c) ==
    CASE c = "R" -> "r" [] c = "M" -> "m" [] c = "S" -> "s" [] c = "U" -> "u"
      [] c = "D" -> "d" [] c = "O" -> "o" [] OTHER -> c

Lower(s) == [i \in DOMAIN s |-> LowerChar(s[i])]

StartsWith(s, p) == Len(p) <= Len(s) /\ SubSeq(s, 1, Len(p)) = p

Contains(p, s) ==
    \E i \in 0..(Len(s) - Len(p)) : SubSeq(s, i + 1, i + Len(p)) = p

\* shlex.split(command) in POSIX mode over an alphabet without backslashes:
\* st = [quote, cur, intok, parts]; an unclosed quote raises ValueError (ok = FALSE).
RECURSIVE shlex_scan(_, _)
shlex_scan(rest, st) ==
    IF rest = <<>>
    THEN IF st.quote # ""
         THEN [ok |-> FALSE, parts |-> <<>>]
         ELSE [ok |-> TRUE,
               parts |-> IF st.intok THEN Append(st.parts, st.cur) ELSE st.parts]
    ELSE LET c == Head(rest)
             nxt ==
                IF st.quote = ""
                THEN IF c = " "
                     THEN IF st.intok
                          THEN [st EXCEPT !.parts = Append(@, st.cur),
                                          !.cur = <<>>, !.intok = FALSE]
                          ELSE st
                     ELSE IF c \in {"'", "\""}
                          THEN [st EXCEPT !.quote = c, !.intok = TRUE]
                          ELSE [st EXCEPT !.cur = Append(@, c), !.intok = TRUE]
                ELSE IF c = st.quote
                     THEN [st EXCEPT !.quote = ""]
                     ELSE [st EXCEPT !.cur = Append(@, c)]
         IN  shlex_scan(Tail(rest), nxt)

shlex_split(command) ==
    shlex_scan(command, [quote |-> "", cur |-> <<>>, intok |-> FALSE, parts |-> <<>>])

NotSensitive == [sensitive |-> FALSE, description |-> ""]

RuleApplies(rule) == rule.os = {} \/ current_os \in rule.os

RuleMatches(rule, base_cmd, command) ==
    LET pattern == Lower(rule.pattern)
    IN  \/ base_cmd = pattern
        \/ StartsWith(base_cmd, pattern \o <<" ">>)
        \/ Contains(pattern, command)

\* the for loop over the rules: the first applicable rule that matches returns
RECURSIVE first_matching_rule(_, _, _)
first_matching_rule(rules, base_cmd, command) ==
    IF rules = <<>> THEN NotSensitive
    ELSE IF RuleApplies(Head(rules)) /\ RuleMatches(Head(rules), base_cmd, command)
         THEN [sensitive |-> TRUE, description |-> Head(rules).description]
         ELSE first_matching_rule(Tail(rules), base_cmd, command)

\* tools/execute.py: the rule list is read from security.json on every call;
\* no rules, a command that cannot be split, or no words at all: not sensitive
execute_is_sensitive_command(rules, command) ==
    IF rules = <<>> THEN NotSensitive
    ELSE LET split == shlex_split(command)
         IN  IF ~split.ok THEN NotSensitive          \* except Exception: return False, ""
             ELSE IF split.parts = <<>> THEN NotSensitive
             ELSE first_matching_rule(rules, Lower(split.parts[1]), command)

is_sensitive_command(command) == execute_is_sensitive_command(sensitive_commands, command)

\* agent.py SecurityManager.is_sensitive_command: the same steps over the rules
\* loaded at construction
agent_is_sensitive_command(rules, command) ==
    IF rules = <<>> THEN NotSensitive
    ELSE LET split == shlex_split(command)
         IN  IF ~split.ok THEN NotSensitive          \* except Exception: return False, ""
             ELSE IF split.parts = <<>> THEN NotSensitive
             ELSE first_matching_rule(rules, Lower(split.parts[1]), command)

Word_rm == <<"r", "m">>
Word_dd == <<"d", "d">>
Flag_rf == <<"-", "r", "f">>
Prefix_of == <<"o", "f", "=">>

HasPart(cmd_parts, w) == \E i \in DOMAIN cmd_parts : cmd_parts[i] = w

\* main.py: base_cmd == "rm" and "-rf" in cmd_parts and any(arg == "/" or arg == "*")
recursive_delete(base_cmd, cmd_parts) ==
    /\ base_cmd = Word_rm
    /\ HasPart(cmd_parts, Flag_rf)
    /\ (HasPart(cmd_parts, <<"/">>) \/ HasPart(cmd_parts, <<"*">>))

\* main.py: base_cmd == "dd" and any(arg.startswith("of="))
disk_write(base_cmd, cmd_parts) ==
    /\ base_cmd = Word_dd
    /\ \E i \in DOMAIN cmd_parts : StartsWith(cmd_parts[i], Prefix_of)

\* the for loop of main.py: per rule, the first-word test returns the rule's
\* description; only when it fails and the pattern occurs in the command are the
\* two compound conditions tried; a plain occurrence alone returns nothing
RECURSIVE main_first_matching_rule(_, _, _, _)
main_first_matching_rule(rules, base_cmd, cmd_parts, command) ==
    IF rules = <<>> THEN NotSensitive
    ELSE LET rule == Head(rules)
             pattern == Lower(rule.pattern)
         IN  IF RuleApplies(rule)
                  /\ (base_cmd = pattern \/ StartsWith(base_cmd, pattern \o <<" ">>))
             THEN [sensitive |-> TRUE, description |-> rule.description]
             ELSE IF RuleApplies(rule) /\ Contains(pattern, command)
                        /\ recursive_delete(base_cmd, cmd_parts)
             THEN [sensitive |-> TRUE, description |-> "dangerous recursive delete"]
             ELSE IF RuleApplies(rule) /\ Contains(pattern, command)
                        /\ disk_write(base_cmd, cmd_parts)
             THEN [sensitive |-> TRUE, description |-> "writes data to disk"]
             ELSE main_first_matching_rule(Tail(rules), base_cmd, cmd_parts, command)

\* main.py SecurityManager.is_sensitive_command: no early return for an empty rule
\* list, and an exception while checking is answered as sensitive
main_is_sensitive_command(rules, command) ==
    LET split == shlex_split(command)
    IN  IF ~split.ok
        THEN [sensitive |-> TRUE, description |-> "check failed, be careful"]
        ELSE IF split.parts = <<>> THEN NotSensitive
        ELSE main_first_matching_rule(rules, Lower(split.parts[1]), split.parts, command)

---------------------------------------------------------------------------
(* Tools (src/tools/*.py, ToolManager.exit_program) *)

NoArgs == <<>>                         \* the empty mapping {}
ToolCall(name, args) == [name |-> name, args |-> args]

Result(success, rlen, exit) ==
    [success |-> success, rlen |-> rlen, exit |-> exit, user_input |-> EmptyText,
     sensitive |-> FALSE, description |-> ""]

\* keyword parameters of each tool function: those without a default, and all of them
RequiredParams(name) ==
    CASE name = "exit" -> {}
      [] name = "info" -> {"content"}
      [] name = "interact" -> {"content"}
      [] name = "read" -> {"file_path"}
      [] name = "execute" -> {"command"}
      [] OTHER -> {}

AllowedParams(name) ==
    CASE name = "exit" -> {"message"}
      [] name = "info" -> {"content"}
      [] name = "interact" -> {"content", "prompt"}
      [] name = "read" -> {"file_path"}
      [] name = "execute" -> {"command"}
      [] OTHER -> {}

\* tool_function(**tool_args) binds its keywords: a missing or an unexpected
\* keyword raises TypeError before the body (and its try/except) is entered
BindsArgs(name, args) ==
    /\ RequiredParams(name) \subseteq DOMAIN args
    /\ DOMAIN args \subseteq AllowedParams(name)

DEFAULT_EXIT_MESSAGE_LEN == 5          \* len("任务已完成")

\* an exit that reports success without the terminate flag
exit_program_no_flag(args) ==
    Result(TRUE,
           IF "message" \in DOMAIN args THEN SeqLen(args["message"])
           ELSE DEFAULT_EXIT_MESSAGE_LEN,
           FALSE)

exit_program(args) ==
    Result(TRUE,
           IF "message" \in DOMAIN args THEN SeqLen(args["message"])
           ELSE DEFAULT_EXIT_MESSAGE_LEN,
           TRUE)

info_execute(args) == Result(TRUE, SeqLen(args["content"]), FALSE)

\* env = [tool_ok, out_len]: whether the command exits with 0, and its output size
execute_execute(args, env) ==
    LET command == args["command"]
        gate == is_sensitive_command(command)
    IN  IF gate.sensitive
        THEN [ran |-> FALSE,
              result |-> [Result(FALSE, 60 + SeqLen(command), FALSE)
                            EXCEPT !.sensitive = TRUE, !.description = gate.description]]
        ELSE [ran |-> TRUE,
              result |-> Result(env.tool_ok, env.out_len, FALSE)]

\* tool_function(**tool_args): [raised, result, ev]
NoResult == Result(FALSE, 0, FALSE)

call_tool(name, args, env) ==
    IF ~BindsArgs(name, args)
    THEN [raised |-> TRUE, result |-> NoResult, ev |-> <<"invoke", "raise">>]
    ELSE CASE name = "exit" ->
                [raised |-> FALSE, result |-> exit_program(args), ev |-> <<"invoke">>]
           [] name = "info" ->
                [raised |-> FALSE, result |-> info_execute(args), ev |-> <<"invoke">>]
           [] name = "execute" ->
                LET r == execute_execute(args, env)
                IN  [raised |-> FALSE, result |-> r.result,
                     ev |-> IF r.ran THEN <<"invoke", "run_command">> ELSE <<"invoke">>]
           [] OTHER ->
                [raised |-> FALSE, result |-> Result(TRUE, 6, FALSE), ev |-> <<"invoke">>]

\* ToolManager.load_tools: tool_descriptions lists every tool of tools.json (exit
\* first), tools holds those whose implementation module loaded
\* (here: tools/read.py did not load)
ToolConfigs ==
    { [tool_descriptions |-> <<"exit", "read", "execute", "info", "interact">>,
       tools |-> {"exit", "execute", "info", "interact"}] }

get_tool_function(a, tool_name) == tool_name \in a.tools   \* FALSE stands for None

Range(s) == {s[i] : i \in DOMAIN s}

---------------------------------------------------------------------------
(* ModelCommunicator (src/agent.py) *)

AttemptOutcomes == {"ok", "badjson", "5xx", "4xx", "3xx", "timeout", "conn", "exc"}

retry_delay == 5

\* what the backend answered in an attempt that got an answer
StatusCode(o) ==
    CASE o = "5xx" -> 503 [] o = "4xx" -> 404 [] o = "3xx" -> 304 [] OTHER -> 200

ResponseText(o) ==
    CASE o = "5xx" -> "unavailable" [] o = "4xx" -> "{\"error\": \"not found\"}"
      [] o = "3xx" -> "" [] o = "badjson" -> "<html>" [] OTHER -> "{\"choices\": []}"

IsJson(o) == o \in {"ok", "4xx"}

\* headers and data of lines 320-330: built once, before the loop
RequestData(messages) == [model |-> "gpt-4o", messages |-> messages, stream |-> FALSE]

Post(data) == [kind |-> "post", json |-> data, seconds |-> 0]

\* a wait that grows with the number of failed attempts
wait_backoff(retries) == [kind |-> "sleep", json |-> <<>>, seconds |-> retry_delay * retries]

\* time.sleep(self.retry_delay) after the retries-th failed attempt
wait(retries) == [kind |-> "sleep", json |-> <<>>, seconds |-> retry_delay]

\* a status test that retries every status but 200
retry_status_any(status_code) == status_code # 200

\* line 361: the statuses that are retried
retry_status(status_code) == 500 <= status_code /\ status_code < 600

NoDetails == [status_code |-> 0, text |-> "", reencoded |-> FALSE]

SendError(data, err, retries) ==
    [ok |-> FALSE, err |-> err, attempts |-> retries + 1, sleeps |-> retries,
     log |-> <<Post(data)>>, details |-> NoDetails]

\* lines 369-377: the status goes into the error text, the body into details
\* (re-encoded by json.dumps when it is JSON)
StatusError(data, o, retries) ==
    [SendError(data, "status", retries) EXCEPT
        !.details = [status_code |-> StatusCode(o), text |-> ResponseText(o),
                     reencoded |-> IsJson(o)]]

\* the attempt failed and the loop goes round: wait, then what the later attempts give
Retried(data, retries, later) == [later EXCEPT !.log = <<Post(data), wait(retries + 1)>> \o @]

\* A retry loop that allows one attempt more.
RECURSIVE send_loop_one_more(_, _, _)
send_loop_one_more(data, script, retries) ==
    IF retries > max_retries + 1
    THEN [ok |-> FALSE, err |-> "retries_exhausted", attempts |-> retries, sleeps |-> retries,
          log |-> <<>>, details |-> NoDetails]
    ELSE LET o == script[retries + 1]
             again == retries + 1 <= max_retries + 1
         IN  CASE o = "ok" ->
                    [ok |-> TRUE, err |-> "", attempts |-> retries + 1, sleeps |-> retries,
                     log |-> <<Post(data)>>, details |-> NoDetails]
               [] o \in {"4xx", "3xx"} -> StatusError(data, o, retries)
               [] OTHER ->
                    IF again
                    THEN Retried(data, retries, send_loop_one_more(data, script, retries + 1))
                    ELSE SendError(data, "exception", retries)

\* send_request: script[k] is what the backend does with the k-th POST of this call;
\* retries counts the failed attempts so far
RECURSIVE send_loop(_, _, _)
send_loop(data, script, retries) ==
    IF retries > max_retries
    THEN [ok |-> FALSE, err |-> "retries_exhausted", attempts |-> retries, sleeps |-> retries,
          log |-> <<>>, details |-> NoDetails]
    ELSE LET o == script[retries + 1]
             again == retries + 1 <= max_retries
         IN  CASE o = "ok" ->
                    [ok |-> TRUE, err |-> "", attempts |-> retries + 1, sleeps |-> retries,
                     log |-> <<Post(data)>>, details |-> NoDetails]
               [] o = "badjson" ->
                    IF again THEN Retried(data, retries, send_loop(data, script, retries + 1))
                    ELSE SendError(data, "invalid_json", retries)
               [] o \in {"5xx", "4xx", "3xx"} ->
                    IF retry_status(StatusCode(o)) /\ again
                    THEN Retried(data, retries, send_loop(data, script, retries + 1))
                    ELSE StatusError(data, o, retries)
               [] o = "timeout" ->
                    IF again THEN Retried(data, retries, send_loop(data, script, retries + 1))
                    ELSE SendError(data, "timeout", retries)
               [] o = "conn" ->
                    IF again THEN Retried(data, retries, send_loop(data, script, retries + 1))
                    ELSE SendError(data, "connection", retries)
               [] OTHER ->
                    IF again THEN Retried(data, retries, send_loop(data, script, retries + 1))
                    ELSE SendError(data, "exception", retries)

send_request(messages, script) == send_loop(RequestData(messages), script, 0)

\* What the regular expressions of parse_response find in the model's text:
\*   eof      content.strip() ends with EOF
\*   fence    the first ``` block: json is "invalid", "object" or "scalar"
\*   call     the first identifier(...) match and its key=value pairs
\*   mention  the tool names found in the text, the quoted key: "value" pairs, the
\*            quoted or labelled path and the rest of the line after the name
\*   keyword  the exit vocabulary occurs;  words  len(content.strip().split())
NoFence == [present |-> FALSE, json |-> "invalid", has_name |-> FALSE,
            has_args |-> FALSE, name |-> "", args |-> NoArgs]
NoCall == [present |-> FALSE, name |-> "", args |-> NoArgs]
NoMention == [names |-> {}, pairs |-> NoArgs, path |-> <<>>, rest |-> <<>>]

DEFAULT_MESSAGE == <<"d", "o", "n", "e", "!">>     \* "任务已完成"

ParseErr(message, echo) ==
    [kind |-> "error", message |-> message, echo |-> echo, name |-> "", args |-> NoArgs]
ParsedCall(name, args) ==
    [kind |-> "call", message |-> "", echo |-> FALSE, name |-> name, args |-> args]
ParsedEOF == [kind |-> "EOF", message |-> "", echo |-> FALSE, name |-> "", args |-> NoArgs]

\* rule 2.2 for one tool name found in the text
mention_call(tool_name, m) ==
    IF tool_name = "exit"
    THEN ParsedCall("exit", "message" :> (IF m.rest # <<>> THEN m.rest ELSE DEFAULT_MESSAGE))
    ELSE LET a1 == m.pairs
             a2 == IF DOMAIN a1 = {} /\ tool_name \in {"read", "write"} /\ m.path # <<>>
                   THEN "file_path" :> m.path ELSE a1
             a3 == IF tool_name = "execute" /\ DOMAIN a2 = {}
                   THEN "command" :> m.rest ELSE a2
             a4 == IF tool_name \in {"info", "interact"} /\ DOMAIN a3 = {}
                   THEN "content" :> m.rest ELSE a3
         IN  ParsedCall(tool_name, a4)

RECURSIVE first_mention(_, _)
first_mention(available_tools, m) ==
    IF available_tools = <<>> THEN ParsedEOF     \* stands for: no tool name found
    ELSE IF Head(available_tools) \in m.names
         THEN mention_call(Head(available_tools), m)
         ELSE first_mention(Tail(available_tools), m)

parse_guess(c, available_tools) ==
    IF c.keyword
    THEN ParsedCall("exit", "message" :> c.text)
    ELSE IF c.words > 3 /\ "info" \in Range(available_tools)
         THEN ParsedCall("info", "content" :> c.text)
         ELSE ParseErr("unparseable", TRUE)

parse_mention(c, available_tools) ==
    IF \E i \in DOMAIN available_tools : available_tools[i] \in c.mention.names
    THEN first_mention(available_tools, c.mention)
    ELSE parse_guess(c, available_tools)

parse_call_syntax(c, available_tools) ==
    IF c.call.present /\ c.call.name \in Range(available_tools)
    THEN ParsedCall(c.call.name, c.call.args)
    ELSE parse_mention(c, available_tools)

\* A cascade that tries the call syntax before the fenced block.
parse_fence_after_call(c, available_tools) ==
    IF c.call.present /\ c.call.name \in Range(available_tools)
    THEN ParsedCall(c.call.name, c.call.args)
    ELSE IF /\ c.fence.present /\ c.fence.json = "object"
            /\ c.fence.has_name /\ c.fence.has_args
            /\ c.fence.name \in Range(available_tools)
         THEN ParsedCall(c.fence.name, c.fence.args)
         ELSE parse_mention(c, available_tools)

parse_fence(c, available_tools) ==
    IF c.fence.present /\ c.fence.json = "scalar"
    THEN ParseErr("parse_exception", FALSE)      \* "name" in 5 raises, outer except
    ELSE IF /\ c.fence.present /\ c.fence.json = "object"
            /\ c.fence.has_name /\ c.fence.has_args
            /\ c.fence.name \in Range(available_tools)
         THEN ParsedCall(c.fence.name, c.fence.args)
         ELSE parse_call_syntax(c, available_tools)

\* response = [kind, content]: the JSON body of the 200 answer
parse_response(response, available_tools) ==
    CASE response.kind = "error_key" -> ParseErr("backend_error", FALSE)
      [] response.kind = "no_choices" -> ParseErr("no_choices", FALSE)
      [] response.kind = "empty_content" -> ParseErr("empty_content", FALSE)
      [] OTHER ->
            IF response.content.eof THEN ParsedEOF
            ELSE parse_fence(response.content, available_tools)

---------------------------------------------------------------------------
(* AIAgent (src/agent.py) *)

\* AIAgent.__init__ with the tool files found on disk
AIAgent(cfg) ==
    add_system_message(
        [messages |-> <<>>, last_tool_was_info |-> FALSE,
         pending_interactions |-> [i \in {} |-> 0],
         tools |-> cfg.tools, tool_descriptions |-> cfg.tool_descriptions])

\* A response of the engine.  type = "" stands for a body without a type field.
Resp(type, message) ==
    [type |-> type, message |-> message, status |-> 200,
     interaction_id |-> NoneId, content |-> <<>>, prompt |-> <<>>,
     tool |-> "", success |-> FALSE, echo |-> FALSE,
     session_id |-> NoneId, has_continuation |-> FALSE]

\* What an engine call hands back to its caller: the agent, the returned dict (or
\* the exception raised instead), what it did, in order, and the uuid counter.
NoToolCall == ToolCall("", NoArgs)

Out(a, resp, ev, uid, raised, call) ==
    [a |-> a, resp |-> resp, ev |-> ev, uid |-> uid, raised |-> raised, call |-> call]

DEFAULT_CONTENT == <<"?">>             \* "请输入您的回复"
DEFAULT_PROMPT == <<":">>              \* "请输入您的回复: "
LOOP_GUARD_RESULT_LEN == 28            \* len("检测到连续使用info工具。请改用其他工具执行具体操作。")

RecordEvent(result) ==
    IF result.user_input # EmptyText THEN "record_reply"
    ELSE IF result.success THEN "record_ok" ELSE "record_failed"

\* What add_tool_result(tool_call, result) adds to the account of a call: the
\* result recorded, and "trim" when _trim_history popped at least one message.
Recording(a, tool_call, result) ==
    IF Len(add_tool_result(a, tool_call, result).messages) <= Len(a.messages)
    THEN <<RecordEvent(result), "trim">>
    ELSE <<RecordEvent(result)>>

\* lines 719-731: the loop guard has fired
intercept_info(a, tool_call, ev, uid) ==
    LET tool_result == Result(FALSE, LOOP_GUARD_RESULT_LEN, FALSE)
    IN  Out(add_tool_result(a, tool_call, tool_result),
            Resp("warning", "consecutive_info"),
            ev \o Recording(a, tool_call, tool_result), uid, FALSE, tool_call)

\* an unknown tool answered without recording anything
unknown_tool_unrecorded(a, tool_call, ev, uid) ==
    Out(a, Resp("error", "unknown_tool"), ev, uid, FALSE, tool_call)

\* lines 741-751: the registry has no function for the name
unknown_tool(a, tool_call, ev, uid) ==
    LET result == Result(FALSE, 13, FALSE)
    IN  Out(add_tool_result(a, tool_call, result),
            Resp("error", "unknown_tool"),
            ev \o Recording(a, tool_call, result), uid, FALSE, tool_call)

PendingEntry(tool_call) ==
    [tool_call |-> tool_call,
     content |-> IF "content" \in DOMAIN tool_call.args
                 THEN tool_call.args["content"] ELSE DEFAULT_CONTENT,
     prompt |-> IF "prompt" \in DOMAIN tool_call.args
                THEN tool_call.args["prompt"] ELSE DEFAULT_PROMPT]

\* a suspension that also runs the interact tool's function
suspend_invoking(a, tool_call, ev, uid) ==
    LET interaction_id == Uuid(uid + 1)
        entry == PendingEntry(tool_call)
    IN  Out([a EXCEPT !.pending_interactions = (interaction_id :> entry) @@ @],
            [Resp("interaction_required", "")
               EXCEPT !.interaction_id = interaction_id,
                      !.content = entry.content, !.prompt = entry.prompt],
            ev \o <<"invoke", "suspend">>, uid + 1, FALSE, tool_call)

\* a suspension that takes the uuid drawn last instead of drawing one
suspend_reusing(a, tool_call, ev, uid) ==
    LET interaction_id == Uuid(uid)
        entry == PendingEntry(tool_call)
    IN  Out([a EXCEPT !.pending_interactions = (interaction_id :> entry) @@ @],
            [Resp("interaction_required", "")
               EXCEPT !.interaction_id = interaction_id,
                      !.content = entry.content, !.prompt = entry.prompt],
            Append(ev, "suspend"), uid, FALSE, tool_call)

\* lines 753-773: the interact tool suspends the turn
suspend(a, tool_call, ev, uid) ==
    LET interaction_id == Uuid(uid + 1)
        entry == PendingEntry(tool_call)
    IN  Out([a EXCEPT !.pending_interactions = (interaction_id :> entry) @@ @],
            [Resp("interaction_required", "")
               EXCEPT !.interaction_id = interaction_id,
                      !.content = entry.content, !.prompt = entry.prompt],
            Append(ev, "suspend"), uid + 1, FALSE, tool_call)

\* lines 775-796, r = tool_function(**tool_args)
after_call(r, a, tool_call, ev, uid) ==
    IF r.raised
    THEN Out(a, Resp("", "exception"), ev \o r.ev, uid, TRUE, tool_call)
    ELSE IF tool_call.name = "exit" /\ r.result.success /\ r.result.exit
    THEN Out(add_tool_result(a, tool_call, r.result),
             Resp("exit", ""),
             (ev \o r.ev) \o Recording(a, tool_call, r.result), uid, FALSE, tool_call)
    ELSE Out(add_tool_result(a, tool_call, r.result),
             [Resp("tool_result",
                   IF r.result.sensitive THEN r.result.description ELSE "")
                EXCEPT !.tool = tool_call.name, !.success = r.result.success],
             (ev \o r.ev) \o Recording(a, tool_call, r.result), uid, FALSE, tool_call)

\* process_message from the loop guard on (lines 719-796)
dispatch(a, tool_call, env, ev, uid) ==
    IF tool_call.name = "info" /\ was_last_tool_info(a)
    THEN intercept_info(a, tool_call, ev, uid)
    ELSE IF ~get_tool_function(a, tool_call.name)
    THEN unknown_tool(a, tool_call, ev, uid)
    ELSE IF tool_call.name = "interact"
    THEN suspend(a, tool_call, ev, uid)
    ELSE after_call(call_tool(tool_call.name, tool_call.args, env), a, tool_call, ev, uid)

\* io = [script, body, env]: the backend's behaviour and the tool's environment
\* a transport failure that takes the user message back
transport_failed_rollback(a1, ev1, uid) ==
    Out([a1 EXCEPT !.messages = SubSeq(@, 1, Len(@) - 1)],
        Resp("error", "transport"), ev1, uid, FALSE, NoToolCall)

\* lines 683-689: send_request returned {"error": ...}
transport_failed(a1, ev1, uid) ==
    Out(a1, Resp("error", "transport"), ev1, uid, FALSE, NoToolCall)

\* the account of lines 677-681
TurnStart(message) ==
    <<IF message = CONTINUE_TEXT THEN "append_continue" ELSE "append_user", "send">>

\* process_message from send_request on (lines 680-796); a1 is the agent when the
\* request returns
after_send(a1, ev1, io, uid) ==
    LET response == send_request(a1.messages, io.script)
    IN  IF ~response.ok
        THEN transport_failed(a1, ev1, uid)
        ELSE IF io.body.kind = "error_key"
        THEN Out(a1, Resp("error", "backend_error"), ev1, uid, FALSE, NoToolCall)
        ELSE LET available_tools == a1.tool_descriptions
                 parsed_response == parse_response(io.body, available_tools)
                 has_content == io.body.kind = "content"
                 a2 == IF has_content
                       THEN add_assistant_message(a1, io.body.content.len) ELSE a1
                 ev2 == IF has_content THEN Append(ev1, "append_assistant") ELSE ev1
             IN  IF parsed_response.kind = "error"
                 THEN Out(a2, [Resp("error", parsed_response.message)
                                 EXCEPT !.echo = parsed_response.echo],
                          ev2, uid, FALSE, NoToolCall)
                 ELSE LET tool_call ==
                              IF parsed_response.kind = "EOF"
                              THEN ToolCall("exit", "message" :> DEFAULT_MESSAGE)
                              ELSE ToolCall(parsed_response.name, parsed_response.args)
                      IN  dispatch(a2, tool_call, io.env, ev2, uid)

process_message(a, message, io, uid) ==
    after_send(add_user_message(a, message), TurnStart(message), io, uid)

Without(f, k) == [i \in DOMAIN f \ {k} |-> f[i]]

\* a lookup that leaves the entry where it is
pop_interaction_keep(a, interaction_id) == a

\* self.pending_interactions.pop(interaction_id)
pop_interaction(a, interaction_id) ==
    [a EXCEPT !.pending_interactions = Without(@, interaction_id)]

\* a completion that does not look the interaction up in the agent's own table
complete_interaction_unchecked(a, interaction_id, user_input, io, uid) ==
    LET a1 == pop_interaction(a, interaction_id)
        result == [Result(TRUE, 6 + TextLen(user_input), FALSE)
                     EXCEPT !.user_input = user_input]
        a2 == add_tool_result(a1, NoToolCall, result)
        cont == process_message(a2, CONTINUE_TEXT, io, uid)
    IN  [cont EXCEPT !.ev = (<<"pop_pending">> \o Recording(a1, NoToolCall, result)) \o @]

complete_interaction(a, interaction_id, user_input, io, uid) ==
    IF interaction_id \notin DOMAIN a.pending_interactions
    THEN Out(a, Resp("error", "interaction_missing"), <<>>, uid, FALSE, NoToolCall)
    ELSE LET interaction == a.pending_interactions[interaction_id]
             a1 == pop_interaction(a, interaction_id)
             tool_call == interaction.tool_call
             result == [Result(TRUE, 6 + TextLen(user_input), FALSE)
                          EXCEPT !.user_input = user_input]
             a2 == add_tool_result(a1, tool_call, result)
             cont == process_message(a2, CONTINUE_TEXT, io, uid)
         IN  [cont EXCEPT !.ev = (<<"pop_pending">> \o Recording(a1, tool_call, result)) \o @]

---------------------------------------------------------------------------
(* Inputs of the model: what the model backend answers and how tools fare *)

Cmd_ls == <<"l", "s">>
Cmd_rm == <<"r", "m", " ", "-", "r", "f", " ", "/">>

BaseContent ==
    [len |-> 30, text |-> <<"t">>, eof |-> FALSE, fence |-> NoFence, call |-> NoCall,
     mention |-> NoMention, keyword |-> FALSE, words |-> 1]

Fenced(name, args) ==
    [BaseContent EXCEPT !.fence =
        [present |-> TRUE, json |-> "object", has_name |-> TRUE, has_args |-> TRUE,
         name |-> name, args |-> args]]

EnvContents ==
    { [BaseContent EXCEPT !.mention = [names |-> {"execute"}, pairs |-> NoArgs,
                                       path |-> <<>>, rest |-> Cmd_ls]] }

PlainContents ==
    { [BaseContent EXCEPT !.eof = TRUE],
      Fenced("read", "file_path" :> <<"a">>),
      Fenced("execute", "command" :> Cmd_rm),
      Fenced("execute", ("command" :> Cmd_rm) @@ ("timeout" :> <<"5">>)),
      Fenced("info", "content" :> <<"p">>),
      Fenced("interact", ("content" :> <<"q">>) @@ ("prompt" :> <<">">>)),
      [BaseContent EXCEPT !.keyword = TRUE],
      [BaseContent EXCEPT !.len = 70000] }

Body(kind, content) == [kind |-> kind, content |-> content]

Env(tool_ok) == [tool_ok |-> tool_ok, out_len |-> IF tool_ok THEN 5000 ELSE 10]

ScriptOk == <<"5xx", "timeout", "ok", "ok">>
ScriptsFailing == { <<"timeout", "conn", "badjson", "5xx">>, <<"4xx", "ok", "ok", "ok">> }

IO(script, body, env) == [script |-> script, body |-> body, env |-> env]

IOs ==
    {IO(sc, Body("no_choices", BaseContent), Env(TRUE)) : sc \in ScriptsFailing}
    \cup {IO(ScriptOk, Body(k, BaseContent), Env(TRUE)) :
            k \in {"error_key", "no_choices", "empty_content"}}
    \cup {IO(ScriptOk, Body("content", c), Env(TRUE)) : c \in PlainContents}
    \cup {IO(ScriptOk, Body("content", c), Env(ok)) : c \in EnvContents, ok \in BOOLEAN}

---------------------------------------------------------------------------
(* The HTTP surface (src/app.py) *)

ClientSession == <<"client", 1>>       \* a session id made up by a client

Request(session_id, message, continue, interaction_id) ==
    [session_id |-> session_id, message |-> message, continue |-> continue,
     interaction_id |-> interaction_id]

NoRequest == Request(NoneId, EmptyText, FALSE, NoneId)

Idle ==
    [busy |-> FALSE, req |-> NoRequest, sid |-> NoneId, path |-> "",
     resp |-> Resp("", ""), ev |-> <<>>, call |-> NoToolCall]

\* @app.before_request
cleanup_expired_data ==
    [i \in {j \in DOMAIN interaction_requests :
                ~(now - interaction_requests[j].created_at > INTERACTION_TTL)}
        |-> interaction_requests[i]]

ErrorBody(status) == [Resp("", "error") EXCEPT !.status = status]

\* What chat() leaves behind and answers.
Handled(ss, irs, flags, uid, sid, path, out_resp, ev, call) ==
    [sessions |-> ss, interaction_requests |-> irs, continuation_flags |-> flags,
     uuid_counter |-> uid, sid |-> sid, path |-> path, resp |-> out_resp, ev |-> ev,
     call |-> call]

\* chat(), lines 62-70: after complete_interaction has returned or raised
after_complete(result, ss, irs, flags, session_id) ==
    IF result.raised
    THEN Handled([ss EXCEPT ![session_id] = result.a], irs, flags, result.uid,
                 session_id, "complete", ErrorBody(500), result.ev, result.call)
    ELSE Handled([ss EXCEPT ![session_id] = result.a], irs,
                 [flags EXCEPT ![session_id] = TRUE],
                 result.uid, session_id, "complete",
                 [result.resp EXCEPT !.session_id = session_id,
                                     !.has_continuation = TRUE],
                 result.ev, result.call)

\* a turn branch that leaves the flag set whatever the turn answered
after_turn_flag_set(result, ss, irs, flags, session_id) ==
    IF result.raised
    THEN Handled([ss EXCEPT ![session_id] = result.a], irs, flags, result.uid,
                 session_id, "turn", ErrorBody(500), result.ev, result.call)
    ELSE LET suspended == result.resp.type = "interaction_required"
             irs1 == IF suspended
                     THEN (result.resp.interaction_id :>
                               [session_id |-> session_id, completed |-> FALSE,
                                created_at |-> now, user_input |-> EmptyText]) @@ irs
                     ELSE irs
         IN  Handled([ss EXCEPT ![session_id] = result.a], irs1,
                     [flags EXCEPT ![session_id] = TRUE],
                     result.uid, session_id, "turn",
                     [result.resp EXCEPT !.session_id = session_id,
                                         !.has_continuation = TRUE],
                     result.ev, result.call)

\* chat(), lines 85-103: after process_message has returned or raised
after_turn(result, ss, irs, flags, session_id) ==
    IF result.raised
    THEN Handled([ss EXCEPT ![session_id] = result.a], irs, flags, result.uid,
                 session_id, "turn", ErrorBody(500), result.ev, result.call)
    ELSE LET suspended == result.resp.type = "interaction_required"
             irs1 == IF suspended
                     THEN (result.resp.interaction_id :>
                               [session_id |-> session_id, completed |-> FALSE,
                                created_at |-> now, user_input |-> EmptyText]) @@ irs
                     ELSE irs
         IN  Handled([ss EXCEPT ![session_id] = result.a], irs1,
                     [flags EXCEPT ![session_id] = ~suspended],
                     result.uid, session_id, "turn",
                     [result.resp EXCEPT !.session_id = session_id,
                                         !.has_continuation = ~suspended],
                     result.ev, result.call)

chat(req, io, cfg) ==
    LET irs0 == cleanup_expired_data
        fresh == req.session_id = NoneId
        uid1 == IF fresh THEN uuid_counter + 1 ELSE uuid_counter
        session_id == IF fresh THEN Uuid(uid1) ELSE req.session_id
        sessions1 == IF fresh THEN (session_id :> AIAgent(cfg)) @@ sessions ELSE sessions
        flags1 == IF fresh THEN (session_id :> FALSE) @@ continuation_flags
                  ELSE continuation_flags
    IN  IF req.message = EmptyText
        THEN Handled(sessions1, irs0, flags1, uid1, session_id, "bad_request",
                     ErrorBody(400), <<>>, NoToolCall)
        ELSE
        LET known == session_id \in DOMAIN sessions1
            sessions2 == IF known THEN sessions1
                         ELSE (session_id :> AIAgent(cfg)) @@ sessions1
            flags2 == IF known THEN flags1 ELSE (session_id :> FALSE) @@ flags1
            agent == sessions2[session_id]
            interaction_id == req.interaction_id
        IN  IF interaction_id # NoneId /\ interaction_id \in DOMAIN irs0
            THEN after_complete(
                    complete_interaction(agent, interaction_id, req.message, io, uid1),
                    sessions2,
                    [irs0 EXCEPT ![interaction_id].user_input = req.message,
                                 ![interaction_id].completed = TRUE],
                    flags2, session_id)
            ELSE LET flag == IF session_id \in DOMAIN flags2
                             THEN flags2[session_id] ELSE FALSE
                     message == IF req.continue /\ flag THEN CONTINUE_TEXT
                                ELSE req.message
                 IN  after_turn(process_message(agent, message, io, uid1),
                                sessions2, irs0,
                                (session_id :> FALSE) @@ flags2, session_id)

---------------------------------------------------------------------------
(* The state machine *)

EmptyMap == [i \in {} |-> 0]

\* no function is being followed
NoPure == [fn |-> "", arg |-> <<>>, tools |-> <<>>, outs |-> <<>>]

Init ==
    /\ sessions = EmptyMap
    /\ interaction_requests = EmptyMap
    /\ continuation_flags = EmptyMap
    /\ now = 0
    /\ uuid_counter = 0
    /\ calls = 0
    /\ consumed = {}
    /\ last = Idle
    /\ inflight = EmptyMap
    /\ pure = NoPure

\* the sessions a request may name while at most max sessions exist
SessionsUpTo(max) ==
    DOMAIN sessions
    \cup (IF Cardinality(DOMAIN sessions) < max THEN {NoneId, ClientSession} ELSE {})

SessionChoices == SessionsUpTo(MaxSessions)

PendingIds == UNION {DOMAIN sessions[s].pending_interactions : s \in DOMAIN sessions}

\* no id, an id that was never issued, and the ids a client may have been handed
InteractionChoices ==
    {NoneId, Uuid(0)} \cup DOMAIN interaction_requests \cup PendingIds \cup consumed

RequestsOf(choices) ==
    {Request(s, EmptyText, FALSE, NoneId) : s \in choices}
    \cup {Request(s, m, c, i) :
            s \in choices, m \in UserTexts, c \in BOOLEAN, i \in InteractionChoices}

Requests == RequestsOf(SessionChoices)

ConfigChoices(req) ==
    IF req.session_id \in DOMAIN sessions
    THEN {CHOOSE cfg \in ToolConfigs : TRUE}     \* no AIAgent is built: cfg is not read
    ELSE ToolConfigs

\* POST /api/chat, from the before_request hook to the returned response
ChatFrom(reqs, budget) ==
    /\ ~last.busy
    /\ calls < budget
    /\ \E req \in reqs : \E io \in IOs : \E cfg \in ConfigChoices(req) :
          \E h \in {chat(req, io, cfg)} :
              /\ sessions' = h.sessions
              /\ interaction_requests' = h.interaction_requests
              /\ continuation_flags' = h.continuation_flags
              /\ uuid_counter' = h.uuid_counter
              /\ consumed' = IF "record_reply" \in Range(h.ev)
                             THEN consumed \cup {req.interaction_id} ELSE consumed
              /\ last' = [busy |-> TRUE, req |-> req, sid |-> h.sid, path |-> h.path,
                          resp |-> h.resp, ev |-> h.ev, call |-> h.call]
    /\ calls' = calls + 1
    /\ UNCHANGED <<now, inflight, pure>>

Chat(budget) == ChatFrom(Requests, budget)

\* The response has been sent: nothing of the request is kept.
Return ==
    /\ last.busy
    /\ last' = Idle
    /\ UNCHANGED <<sessions, interaction_requests, continuation_flags, now,
                   uuid_counter, calls, consumed, inflight, pure>>

\* DELETE /api/sessions/<session_id>, with its before_request hook
delete_session ==
    /\ ~last.busy
    /\ \E session_id \in DOMAIN sessions :
          /\ sessions' = Without(sessions, session_id)
          /\ continuation_flags' = Without(continuation_flags, session_id)
    /\ interaction_requests' = cleanup_expired_data
    /\ UNCHANGED <<now, uuid_counter, calls, consumed, last, inflight, pure>>

\* GET /status or /outputs: only the before_request hook touches the state
status ==
    /\ ~last.busy
    /\ interaction_requests' = cleanup_expired_data
    /\ interaction_requests' # interaction_requests
    /\ UNCHANGED <<sessions, continuation_flags, now, uuid_counter, calls, consumed, last,
                   inflight, pure>>

\* Time passes between requests (only the age of an interaction request is ever
\* read, so the clock is followed while there is one).
Tick ==
    /\ ~last.busy
    /\ DOMAIN interaction_requests # {}
    /\ now + TickLen <= MaxNow
    /\ now' = now + TickLen
    /\ UNCHANGED <<sessions, interaction_requests, continuation_flags, uuid_counter,
                   calls, consumed, last, inflight, pure>>

Next == Chat(MaxCalls) \/ Return \/ delete_session \/ status \/ Tick

Spec == Init /\ [][Next]_vars

\* The same machine followed for one request more.
NextDeep == Chat(DeepCalls) \/ Return \/ delete_session \/ status \/ Tick

SpecDeep == Init /\ [][NextDeep]_vars

\* Runs in which two sessions exist side by side.
ChatAcross == ChatFrom(RequestsOf(SessionsUpTo(CrossSessions)), MaxCalls)

NextCross == ChatAcross \/ Return \/ delete_session \/ status \/ Tick

SpecCross == Init /\ [][NextCross]_vars

---------------------------------------------------------------------------
(* chat() served by the threads of the development server (app.run, app.py:146): *)
(* a request thread can be preempted between two statements and gives up the     *)
(* interpreter while send_request waits for the backend.  A thread is followed   *)
(* from one shared-state access to the next:                                     *)
(*   "complete_check"  before agent.py:808, the membership test                  *)
(*   "complete_pop"    before agent.py:816, the pop                              *)
(*   "turn"            before agent.py:677, add_user_message                     *)
(*   "await"           in agent.py:681, send_request                             *)
(*   "done"            the response is built                                     *)

Threads == 1..MaxThreads

Local(pc, req, sid, route, message, ev, resp, call) ==
    [pc |-> pc, req |-> req, sid |-> sid, route |-> route, message |-> message,
     ev |-> ev, resp |-> resp, call |-> call]

\* chat(), lines 26-80, with the before_request hook: up to the call into the engine
chat_begin(req, cfg) ==
    LET irs0 == cleanup_expired_data
        fresh == req.session_id = NoneId
        uid1 == IF fresh THEN uuid_counter + 1 ELSE uuid_counter
        session_id == IF fresh THEN Uuid(uid1) ELSE req.session_id
        known == session_id \in DOMAIN sessions
        sessions2 == IF known THEN sessions ELSE (session_id :> AIAgent(cfg)) @@ sessions
        flags2 == IF known THEN continuation_flags
                  ELSE (session_id :> FALSE) @@ continuation_flags
        interaction_id == req.interaction_id
        completing == interaction_id # NoneId /\ interaction_id \in DOMAIN irs0
        flag == IF session_id \in DOMAIN flags2 THEN flags2[session_id] ELSE FALSE
    IN  [sessions |-> sessions2,
         interaction_requests |->
            IF completing
            THEN [irs0 EXCEPT ![interaction_id].user_input = req.message,
                              ![interaction_id].completed = TRUE]
            ELSE irs0,
         continuation_flags |->
            IF completing THEN flags2 ELSE (session_id :> FALSE) @@ flags2,
         uuid_counter |-> uid1,
         sid |-> session_id,
         route |-> IF completing THEN "complete" ELSE "turn",
         message |-> IF ~completing /\ req.continue /\ flag THEN CONTINUE_TEXT
                     ELSE req.message]

ThreadRequests ==
    {Request(s, m, FALSE, i) :
        s \in SessionChoices, m \in UserTexts, i \in InteractionChoices \ {Uuid(0)}}

ThreadIOs ==
    { IO(ScriptOk, Body("content", [BaseContent EXCEPT !.eof = TRUE]), Env(TRUE)),
      IO(ScriptOk, Body("content",
            Fenced("interact", ("content" :> <<"q">>) @@ ("prompt" :> <<">">>))), Env(TRUE)),
      IO(<<"4xx", "ok", "ok", "ok">>, Body("no_choices", BaseContent), Env(TRUE)) }

Set(t, l) == (t :> l) @@ inflight

Receive(t) ==
    /\ t \notin DOMAIN inflight
    /\ calls < ThreadCalls
    /\ \E req \in ThreadRequests : \E cfg \in ConfigChoices(req) :
          \E b \in {chat_begin(req, cfg)} :
              /\ sessions' = b.sessions
              /\ interaction_requests' = b.interaction_requests
              /\ continuation_flags' = b.continuation_flags
              /\ uuid_counter' = b.uuid_counter
              /\ inflight' = Set(t, Local(IF b.route = "complete" THEN "complete_check"
                                           ELSE "turn",
                                          req, b.sid, b.route, b.message, <<>>,
                                          Resp("", ""), NoToolCall))
    /\ calls' = calls + 1
    /\ UNCHANGED <<now, consumed, last, pure>>

\* complete_interaction, lines 808-813, and chat(), lines 65-70, when it returns
CompleteCheck(t) ==
    /\ t \in DOMAIN inflight
    /\ inflight[t].pc = "complete_check"
    /\ LET l == inflight[t]
       IN  IF l.req.interaction_id \in DOMAIN sessions[l.sid].pending_interactions
           THEN /\ inflight' = Set(t, [l EXCEPT !.pc = "complete_pop"])
                /\ UNCHANGED continuation_flags
           ELSE /\ inflight' = Set(t, [l EXCEPT !.pc = "done",
                       !.resp = [Resp("error", "interaction_missing")
                                   EXCEPT !.session_id = l.sid, !.has_continuation = TRUE]])
                /\ continuation_flags' = [continuation_flags EXCEPT ![l.sid] = TRUE]
    /\ UNCHANGED <<sessions, interaction_requests, now, uuid_counter, calls, consumed,
                   last, pure>>

\* complete_interaction, lines 816-827: pop raises KeyError when the entry is gone
\* (answered by chat(), lines 105-107), else the reply is recorded
CompletePop(t) ==
    /\ t \in DOMAIN inflight
    /\ inflight[t].pc = "complete_pop"
    /\ LET l == inflight[t]
           a == sessions[l.sid]
           interaction_id == l.req.interaction_id
       IN  IF interaction_id \notin DOMAIN a.pending_interactions
           THEN /\ inflight' = Set(t, [l EXCEPT !.pc = "done", !.resp = ErrorBody(500),
                                                 !.ev = <<"raise">>])
                /\ UNCHANGED <<sessions, consumed>>
           ELSE LET tool_call == a.pending_interactions[interaction_id].tool_call
                    a1 == pop_interaction(a, interaction_id)
                    result == [Result(TRUE, 6 + TextLen(l.req.message), FALSE)
                                 EXCEPT !.user_input = l.req.message]
                IN  /\ sessions' = [sessions EXCEPT
                                      ![l.sid] = add_tool_result(a1, tool_call, result)]
                    /\ consumed' = consumed \cup {interaction_id}
                    /\ inflight' = Set(t, [l EXCEPT !.pc = "turn",
                              !.message = CONTINUE_TEXT,
                              !.ev = <<"pop_pending">> \o Recording(a1, tool_call, result)])
    /\ UNCHANGED <<interaction_requests, continuation_flags, now, uuid_counter, calls,
                   last, pure>>

\* process_message, line 677
AppendUser(t) ==
    /\ t \in DOMAIN inflight
    /\ inflight[t].pc = "turn"
    /\ LET l == inflight[t]
       IN  /\ sessions' = [sessions EXCEPT ![l.sid] = add_user_message(@, l.message)]
           /\ inflight' = Set(t, [l EXCEPT !.pc = "await",
                                          !.ev = @ \o TurnStart(l.message)])
    /\ UNCHANGED <<interaction_requests, continuation_flags, now, uuid_counter, calls,
                   consumed, last, pure>>

\* send_request returns: the rest of process_message and of chat()
ModelReturns(t) ==
    /\ t \in DOMAIN inflight
    /\ inflight[t].pc = "await"
    /\ LET l == inflight[t]
       IN  \E io \in ThreadIOs :
             \E result \in {after_send(sessions[l.sid], l.ev, io, uuid_counter)} :
               \E h \in {IF l.route = "complete"
                          THEN after_complete(result, sessions, interaction_requests,
                                              continuation_flags, l.sid)
                          ELSE after_turn(result, sessions, interaction_requests,
                                          continuation_flags, l.sid)} :
                  /\ sessions' = h.sessions
                  /\ interaction_requests' = h.interaction_requests
                  /\ continuation_flags' = h.continuation_flags
                  /\ uuid_counter' = h.uuid_counter
                  /\ inflight' = Set(t, [l EXCEPT !.pc = "done", !.ev = h.ev,
                                                 !.resp = h.resp, !.call = h.call])
    /\ UNCHANGED <<now, calls, consumed, last, pure>>

\* the response is sent and the thread ends
Respond(t) ==
    /\ t \in DOMAIN inflight
    /\ inflight[t].pc = "done"
    /\ inflight' = Without(inflight, t)
    /\ UNCHANGED <<sessions, interaction_requests, continuation_flags, now, uuid_counter,
                   calls, consumed, last, pure>>

NextThreads ==
    \E t \in Threads :
        \/ Receive(t)
        \/ CompleteCheck(t)
        \/ CompletePop(t)
        \/ AppendUser(t)
        \/ ModelReturns(t)
        \/ Respond(t)

SpecThreads == Init /\ [][NextThreads]_vars

---------------------------------------------------------------------------
(* Functions of the program followed on their own: send_request over every       *)
(* backend behaviour, parse_response over what its regular expressions can find, *)
(* _trim_history over conversations of a session.                                *)

PureScripts == [1..(max_retries + 2) -> AttemptOutcomes]

\* conversations handed to send_request
PureMessages ==
    { <<Message("system", "system_prompt", system_prompt_len), Message("user", "hi", 2)>>,
      <<Message("system", "system_prompt", system_prompt_len), Message("user", "hi", 2),
        Message("assistant", "model_output", 30), Message("user", "tool_result", 100)>> }

FenceChoices ==
    { NoFence,
      [NoFence EXCEPT !.present = TRUE],                                  \* not JSON
      [NoFence EXCEPT !.present = TRUE, !.json = "scalar"],               \* ```5```
      Fenced("read", "file_path" :> <<"a">>).fence,
      Fenced("nosuch", "file_path" :> <<"a">>).fence,
      [Fenced("read", NoArgs).fence EXCEPT !.has_args = FALSE] }

CallChoices ==
    { NoCall,
      [present |-> TRUE, name |-> "read", args |-> "file_path" :> <<"b">>],
      [present |-> TRUE, name |-> "print", args |-> NoArgs] }

MentionChoices ==
    { NoMention,
      [NoMention EXCEPT !.names = {"read"}, !.path = <<"c">>],
      [NoMention EXCEPT !.names = {"execute"}, !.rest = Cmd_ls],
      [NoMention EXCEPT !.names = {"read", "execute"}, !.rest = Cmd_ls] }

\* the features of one text agree: a tool name inside the fenced block or in front
\* of a parenthesis is also a tool name found in the text
Consistent(c) ==
    /\ (c.fence.present /\ c.fence.has_name /\ c.fence.name = "read")
          => "read" \in c.mention.names
    /\ (c.call.present /\ c.call.name = "read") => "read" \in c.mention.names

PureContents ==
    { c \in { [BaseContent EXCEPT !.eof = e, !.fence = f, !.call = k, !.mention = m,
                                  !.keyword = q, !.words = w] :
                 e \in BOOLEAN, f \in FenceChoices, k \in CallChoices,
                 m \in MentionChoices, q \in BOOLEAN, w \in {1, 5} } : Consistent(c) }

PureToolLists ==
    { <<"exit", "read", "execute", "info", "interact">>, <<"exit">>, <<"read", "info">> }

MessageChoices ==
    { Message(r, "text", l) : r \in {"user", "assistant"}, l \in {100, 30000, 70000} }

RECURSIVE Histories(_)
Histories(n) ==
    IF n = 0 THEN {<<>>}
    ELSE LET shorter == Histories(n - 1)
         IN  shorter \cup {Append(h, m) : h \in {x \in shorter : Len(x) = n - 1},
                                          m \in MessageChoices}

\* a conversation as AIAgent.__init__ starts it and the add_* methods extend it
PureConversations ==
    { <<Message("system", "system_prompt", system_prompt_len)>> \o h : h \in Histories(MaxMsgs) }

\* command lines handed to the gate
Cmd_rm_tmp == <<"r", "m", " ", "-", "r", "f", " ", "/", "t", "m", "p", "/", "x">>
Cmd_unbalanced == <<"r", "m", " ", "-", "r", "f", " ", "\"", "/">>
Cmd_upper == <<"R", "M", " ", "x">>
Cmd_quoted == <<"'", "r", "m", " ", "x", "'", " ", "y">>
Cmd_chained == <<"l", "s", ";", " ", "r", "m", " ", "x">>
Cmd_dd == <<"d", "d", " ", "o", "f", "=", "x">>
Cmd_format == <<"f", "o", "r", "m", "a", "t", " ", "c">>
Cmd_sudo == <<"s", "u", "d", "o", " ", "l", "s">>
Cmd_blank == <<" ">>

GateCommands ==
    { Cmd_ls, Cmd_rm, Cmd_rm_tmp, Cmd_unbalanced, Cmd_upper, Cmd_quoted, Cmd_chained,
      Cmd_dd, Cmd_format, Cmd_sudo, Cmd_blank, <<>> }

Rule_rm == [pattern |-> Word_rm, description |-> "delete files", os |-> {"linux", "darwin"}]
Rule_dd == [pattern |-> Word_dd, description |-> "copy data", os |-> {"linux", "darwin"}]
Rule_format ==
    [pattern |-> <<"f", "o", "r", "m", "a", "t">>, description |-> "format disk",
     os |-> {"windows"}]

\* rule lists a security.json can hold
GateRuleSets ==
    { <<>>, <<Rule_rm>>, <<Rule_format, Rule_rm, Rule_dd>>, <<Rule_dd, Rule_rm>>,
      sensitive_commands }

GateFns ==
    { "execute.is_sensitive_command", "agent.is_sensitive_command",
      "main.is_sensitive_command" }

\* the tool files on disk: as deployed, and with tools/info.py failing to load
PureToolConfigs ==
    ToolConfigs \cup
    { [tool_descriptions |-> <<"exit", "read", "execute", "info", "interact">>,
       tools |-> {"exit", "execute", "interact"}] }

\* agents a turn can start from: a new one, and one that has served a turn in which
\* the model called info
PureAgents ==
    UNION { { AIAgent(cfg),
              process_message(AIAgent(cfg), "hi",
                              IO(ScriptOk, Body("content", Fenced("info", "content" :> <<"p">>)),
                                 Env(TRUE)), 0).a } : cfg \in PureToolConfigs }

\* result bodies around the cap; the characters differ from place to place
BodyLengths == {0, 5, 3999, 4000, 4001, 4017, 9999, 12345}
BodyChar(i) == CASE i % 3 = 0 -> "a" [] i % 3 = 1 -> "b" [] OTHER -> "]"
ResultBody(n) == [i \in 1..n |-> BodyChar(i)]

RecordInputs ==
    { [fn |-> "add_tool_result", arg |-> [body |-> ResultBody(n), agent |-> a],
       tools |-> <<>>, outs |-> <<>>] : n \in BodyLengths, a \in PureAgents }

SendInputs ==
    { [fn |-> "send_request", arg |-> [script |-> sc, messages |-> m], tools |-> <<>>,
       outs |-> <<>>] : sc \in PureScripts, m \in PureMessages }

GateInputs ==
    { [fn |-> f, arg |-> [command |-> c, rules |-> r], tools |-> <<>>, outs |-> <<>>] :
         f \in GateFns, c \in GateCommands, r \in GateRuleSets }

ParseInputs ==
    { [fn |-> "parse_response", arg |-> c, tools |-> t, outs |-> <<>>] :
         c \in PureContents, t \in PureToolLists }

TrimInputs ==
    { [fn |-> "_trim_history", arg |-> m, tools |-> <<>>, outs |-> <<>>] :
         m \in PureConversations }

TurnInputs ==
    { [fn |-> "process_message", arg |-> [content |-> c, agent |-> a], tools |-> <<>>,
       outs |-> <<>>] : c \in PureContents, a \in PureAgents }

InitPure ==
    /\ sessions = EmptyMap
    /\ interaction_requests = EmptyMap
    /\ continuation_flags = EmptyMap
    /\ now = 0
    /\ uuid_counter = 0
    /\ calls = 0
    /\ consumed = {}
    /\ last = Idle
    /\ inflight = EmptyMap
    /\ \/ pure \in SendInputs
       \/ pure \in GateInputs
       \/ pure \in ParseInputs
       \/ pure \in TrimInputs
       \/ pure \in TurnInputs
       \/ pure \in RecordInputs

Rest == <<sessions, interaction_requests, continuation_flags, now, uuid_counter, calls,
          consumed, last, inflight>>

ApplySend ==
    /\ pure.fn = "send_request"
    /\ pure.outs = <<>>
    /\ pure' = [pure EXCEPT !.outs = <<send_request(pure.arg.messages, pure.arg.script)>>]
    /\ UNCHANGED Rest

ApplyParse ==
    /\ pure.fn = "parse_response"
    /\ pure.outs = <<>>
    /\ pure' = [pure EXCEPT !.outs = <<parse_response(Body("content", pure.arg), pure.tools)>>]
    /\ UNCHANGED Rest

\* _trim_history, and _trim_history once more on what it left
ApplyTrim ==
    /\ pure.fn = "_trim_history"
    /\ Len(pure.outs) < 2
    /\ pure' = [pure EXCEPT !.outs =
                    Append(@, trim_history(IF @ = <<>> THEN pure.arg ELSE @[Len(@)]))]
    /\ UNCHANGED Rest

ApplyGateExecute ==
    /\ pure.fn = "execute.is_sensitive_command"
    /\ pure.outs = <<>>
    /\ pure' = [pure EXCEPT !.outs =
                    <<execute_is_sensitive_command(pure.arg.rules, pure.arg.command)>>]
    /\ UNCHANGED Rest

ApplyGateAgent ==
    /\ pure.fn = "agent.is_sensitive_command"
    /\ pure.outs = <<>>
    /\ pure' = [pure EXCEPT !.outs =
                    <<agent_is_sensitive_command(pure.arg.rules, pure.arg.command)>>]
    /\ UNCHANGED Rest

ApplyGateMain ==
    /\ pure.fn = "main.is_sensitive_command"
    /\ pure.outs = <<>>
    /\ pure' = [pure EXCEPT !.outs =
                    <<main_is_sensitive_command(pure.arg.rules, pure.arg.command)>>]
    /\ UNCHANGED Rest

\* one process_message("hi") whose request to the backend succeeds
ApplyTurn ==
    /\ pure.fn = "process_message"
    /\ pure.outs = <<>>
    /\ pure' = [pure EXCEPT !.outs =
                    <<process_message(pure.arg.agent, "hi",
                                      IO(ScriptOk, Body("content", pure.arg.content), Env(TRUE)),
                                      0)>>]
    /\ UNCHANGED Rest

\* add_tool_result for an execute call whose result holds the body: the text put
\* after "结果:", and the agent it leaves
ApplyRecord ==
    /\ pure.fn = "add_tool_result"
    /\ pure.outs = <<>>
    /\ pure' = [pure EXCEPT !.outs =
                    <<[text |-> result_text(pure.arg.body),
                       a |-> add_tool_result(pure.arg.agent,
                                             ToolCall("execute", "command" :> Cmd_ls),
                                             Result(TRUE, Len(pure.arg.body), FALSE))]>>]
    /\ UNCHANGED Rest

NextPure ==
    \/ ApplyRecord
    \/ ApplySend \/ ApplyParse \/ ApplyTrim
    \/ ApplyGateExecute \/ ApplyGateAgent \/ ApplyGateMain
    \/ ApplyTurn

SpecPure == InitPure /\ [][NextPure]_vars

---------------------------------------------------------------------------
(* Properties *)

SystemIndexes(msgs) == {i \in DOMAIN msgs : msgs[i].role = "system"}

\* C1: in every reachable state, every session's conversation holds exactly one
\* system message and it is the first message.
C1_SystemMessagePinned ==
    \A s \in DOMAIN sessions :
        LET msgs == sessions[s].messages
        IN  /\ Len(msgs) >= 1
            /\ msgs[1].role = "system"
            /\ SystemIndexes(msgs) = {1}

\* A call in which the history was trimmed has just been served.
C1_Witness ==
    /\ last.busy
    /\ "trim" \in Range(last.ev)
    /\ C1_SystemMessagePinned

---------------------------------------------------------------------------
(* What one served request did *)

\* a step that serves one POST /api/chat
Served == ~last.busy /\ last'.busy

Dispatches(ev) == Count(ev, "invoke") + Count(ev, "suspend")

RecordEvents == {"record_reply", "record_ok", "record_failed"}

\* the events of the last process_message of a call
RECURSIVE TurnEvents(_)
TurnEvents(ev) ==
    IF ev = <<>> THEN <<>>
    ELSE IF \E i \in 2..Len(ev) : ev[i] \in {"append_user", "append_continue"}
    THEN TurnEvents(Tail(ev))
    ELSE ev

PendingOf(ss, s) == IF s \in DOMAIN ss THEN DOMAIN ss[s].pending_interactions ELSE {}

StoredIds == PendingIds \cup DOMAIN interaction_requests

\* C2: a served request holds at most one tool invocation or suspension, on the
\* turn path and on the completion path with its continuation alike.
C2_AtMostOneDispatch ==
    last.busy => Dispatches(last.ev) <= 1

\* A completion whose continuation invoked a tool has just been served.
C2_Witness ==
    /\ last.busy
    /\ last.path = "complete"
    /\ "pop_pending" \in Range(last.ev)
    /\ Count(last.ev, "invoke") = 1
    /\ Dispatches(last.ev) = 1

\* C3: a served request that resolved to the execute tool with a command the gate
\* classifies as sensitive did not run the command, recorded a failed result and
\* answered a failed tool_result that states the risk description.
C3_SensitiveWithheld ==
    (/\ last.busy
     /\ last.call.name = "execute"
     /\ "command" \in DOMAIN last.call.args
     /\ is_sensitive_command(last.call.args["command"]).sensitive)
    => /\ "run_command" \notin Range(last.ev)
       /\ "record_failed" \in Range(last.ev)
       /\ last.resp.type = "tool_result"
       /\ ~last.resp.success
       /\ last.resp.message = is_sensitive_command(last.call.args["command"]).description

\* C4: a served request that invoked a registered tool did not answer with a fault:
\* when the invocation raised, a failed result was recorded and a tool_result
\* response returned.
C4_ToolFailureCaptured ==
    (/\ last.busy
     /\ "invoke" \in Range(last.ev)
     /\ "raise" \in Range(last.ev))
    => /\ "record_failed" \in Range(last.ev)
       /\ last.resp.type = "tool_result"
       /\ last.resp.status = 200

\* C5: a turn that resolves to the info tool in a session whose last recorded tool
\* result was the info tool's does not invoke the tool, records a failed result
\* and answers with type warning.
C5_LoopGuard ==
    [][(/\ Served
        /\ last'.path = "turn"
        /\ last'.call.name = "info"
        /\ last'.sid \in DOMAIN sessions
        /\ sessions[last'.sid].last_tool_was_info)
       => /\ "invoke" \notin Range(last'.ev)
          /\ "record_failed" \in Range(last'.ev)
          /\ last'.resp.type = "warning"]_vars

\* The loop guard has just intercepted an info call.
C5_Witness ==
    /\ last.busy
    /\ last.call.name = "info"
    /\ last.resp.type = "warning"
    /\ "invoke" \notin Range(last.ev)
    /\ sessions[last.sid].last_tool_was_info

\* C6: a served request whose turn resolved to the registered interact tool invoked
\* no tool and recorded no result in that turn, left the conversation ending with
\* the assistant message, stored exactly one new pending interaction under an id
\* no stored entry had, and answered interaction_required with that id and the
\* entry's content and prompt.
C6_Suspension ==
    [][(/\ Served
        /\ last'.path \in {"turn", "complete"}
        /\ last'.call.name = "interact"
        /\ get_tool_function(sessions'[last'.sid], "interact"))
       => LET before == PendingOf(sessions, last'.sid)
              base == IF "pop_pending" \in Range(last'.ev)
                      THEN before \ {last'.req.interaction_id} ELSE before
              a == sessions'[last'.sid]
              after == DOMAIN a.pending_interactions
              id == last'.resp.interaction_id
          IN  /\ "invoke" \notin Range(last'.ev)
              /\ Range(TurnEvents(last'.ev)) \cap (RecordEvents \cup {"trim"}) = {}
              /\ a.messages[Len(a.messages)].role = "assistant"
              /\ base \subseteq after
              /\ after \ base = {id}
              /\ id \notin StoredIds
              /\ last'.resp.type = "interaction_required"
              /\ last'.resp.content = a.pending_interactions[id].content
              /\ last'.resp.prompt = a.pending_interactions[id].prompt
              /\ a.pending_interactions[id].tool_call = last'.call]_vars

\* A suspension has just been served in a session that already held a pending
\* interaction.
C6_Witness ==
    /\ last.busy
    /\ last.call.name = "interact"
    /\ last.resp.type = "interaction_required"
    /\ last.resp.interaction_id \in DOMAIN sessions[last.sid].pending_interactions
    /\ Cardinality(DOMAIN sessions[last.sid].pending_interactions) = 2

\* C7: a served request that completed a pending interaction of its agent removed
\* the entry, recorded one successful result carrying the reply, then appended
\* the continue input and sent exactly one model request.
C7_Completion ==
    (/\ last.busy
     /\ "pop_pending" \in Range(last.ev))
    => LET ev == last.ev
           k == IF ev[3] = "trim" THEN 4 ELSE 3
       IN  /\ Len(ev) >= k + 1
           /\ ev[1] = "pop_pending"
           /\ ev[2] = "record_reply"
           /\ ev[k] = "append_continue"
           /\ ev[k + 1] = "send"
           /\ Count(ev, "record_reply") = 1
           /\ Count(ev, "append_continue") = 1
           /\ Count(ev, "append_user") = 0
           /\ Count(ev, "send") = 1
           /\ last.req.interaction_id \notin DOMAIN sessions[last.sid].pending_interactions

\* A completion has just been served and its continuation reached the model.
C7_Witness ==
    /\ last.busy
    /\ last.path = "complete"
    /\ last.ev[1] = "pop_pending"
    /\ Count(last.ev, "send") = 1
    /\ "append_assistant" \in Range(last.ev)
    /\ last.req.interaction_id \notin DOMAIN sessions[last.sid].pending_interactions

\* C8: a request that carries an interaction id already completed once answers the
\* interaction error and records no second reply.
C8_SecondCompletionRejected ==
    [][(/\ Served
        /\ last'.req.message # EmptyText
        /\ last'.req.interaction_id \in consumed)
       => /\ last'.resp.type = "error"
          /\ last'.resp.message = "interaction_missing"
          /\ "record_reply" \notin Range(last'.ev)]_vars

\* C9: a request that carries, for the first time, the id of an interaction older
\* than the time to live answers the interaction error, records no reply and
\* processes no turn.
C9_ExpiredRejected ==
    [][(/\ Served
        /\ last'.req.message # EmptyText
        /\ last'.req.interaction_id \in DOMAIN interaction_requests
        /\ last'.req.interaction_id \notin consumed
        /\ now - interaction_requests[last'.req.interaction_id].created_at
              > INTERACTION_TTL)
       => /\ last'.resp.type = "error"
          /\ last'.resp.message = "interaction_missing"
          /\ "record_reply" \notin Range(last'.ev)
          /\ "append_user" \notin Range(last'.ev)
          /\ "send" \notin Range(last'.ev)]_vars

\* C10: a request that carries an interaction id under which the session's agent
\* holds no pending interaction answers an error, appends nothing and sends no
\* model request.
C10_UnknownIdRejected ==
    [][(/\ Served
        /\ last'.req.message # EmptyText
        /\ last'.req.interaction_id # NoneId
        /\ last'.req.interaction_id \notin PendingOf(sessions, last'.sid))
       => /\ last'.resp.type = "error"
          /\ last'.ev = <<>>
          /\ (last'.sid \in DOMAIN sessions
                => sessions'[last'.sid].messages = sessions[last'.sid].messages)]_vars

\* the text process_message appended, read off the account of the call
TurnText(l) ==
    IF "append_continue" \in Range(TurnEvents(l.ev)) THEN CONTINUE_TEXT ELSE l.req.message

\* C13: a served request whose turn ended in a transport failure answered an error,
\* left the turn's user message as the last message, appended nothing else,
\* invoked no tool and left the pending interactions and the info flag as the
\* turn found them.
C13_TransportFailureKeepsHistory ==
    [][(/\ Served
        /\ last'.path \in {"turn", "complete"}
        /\ last'.resp.type = "error"
        /\ last'.resp.message = "transport")
       => LET a == sessions'[last'.sid]
              known == last'.sid \in DOMAIN sessions
              completing == "pop_pending" \in Range(last'.ev)
              user == Message("user", TurnText(last'), TextLen(TurnText(last')))
          IN  /\ TurnEvents(last'.ev) = TurnStart(TurnText(last'))
              /\ Dispatches(last'.ev) = 0
              /\ a.messages[Len(a.messages)] = user
              /\ last'.resp.status = 200
              /\ IF completing
                 THEN /\ DOMAIN a.pending_interactions
                            = PendingOf(sessions, last'.sid) \ {last'.req.interaction_id}
                      /\ ~a.last_tool_was_info
                 ELSE /\ DOMAIN a.pending_interactions = PendingOf(sessions, last'.sid)
                      /\ a.messages
                            = IF known THEN Append(sessions[last'.sid].messages, user)
                              ELSE <<a.messages[1], user>>
                      /\ a.last_tool_was_info
                            = (known /\ sessions[last'.sid].last_tool_was_info)]_vars

\* A turn has just failed in transport in a session that holds a pending
\* interaction.
C13_Witness ==
    /\ last.busy
    /\ last.path = "turn"
    /\ last.resp.type = "error"
    /\ last.resp.message = "transport"
    /\ last.ev = <<"append_user", "send">>
    /\ DOMAIN sessions[last.sid].pending_interactions # {}
    /\ Len(sessions[last.sid].messages) = 4

\* the backend behaviours send_request retries on
Retryable == {"badjson", "5xx", "timeout", "conn", "exc"}

\* C14: send_request returns after at most max_retries + 1 attempts, every attempt
\* before the last was one of the retried failures whatever their kinds, and
\* when no attempt succeeded it returns an error value.
C14_SendTerminates ==
    (pure.fn = "send_request" /\ pure.outs # <<>>)
    => LET r == pure.outs[1]
       IN  /\ r.attempts \in 1..(max_retries + 1)
           /\ \A k \in 1..(r.attempts - 1) : pure.arg.script[k] \in Retryable
           /\ r.sleeps = r.attempts - 1
           /\ r.ok <=> pure.arg.script[r.attempts] = "ok"
           /\ ~r.ok => r.err # ""
           /\ (\A k \in 1..(max_retries + 1) : pure.arg.script[k] \in Retryable)
                 => (~r.ok /\ r.attempts = max_retries + 1)

\* send_request has given up after failures of four different kinds.
C14_Witness ==
    /\ pure.fn = "send_request"
    /\ pure.outs # <<>>
    /\ SubSeq(pure.arg.script, 1, 4) = <<"timeout", "conn", "5xx", "badjson">>
    /\ ~pure.outs[1].ok
    /\ pure.outs[1].attempts = max_retries + 1

\* the ordered rules of the parser as conditions on one text
RuleEOF(c) == c.eof
RuleFence(c, tools) ==
    /\ c.fence.present /\ c.fence.json = "object"
    /\ c.fence.has_name /\ c.fence.has_args /\ c.fence.name \in Range(tools)
RuleCall(c, tools) == c.call.present /\ c.call.name \in Range(tools)
RuleMention(c, tools) == c.mention.names \cap Range(tools) # {}
RuleKeyword(c, tools) == c.keyword \/ (c.words > 3 /\ "info" \in Range(tools))

\* the result of the first rule that matches
FirstMatch(c, tools) ==
    IF RuleEOF(c) THEN ParsedEOF
    ELSE IF RuleFence(c, tools) THEN ParsedCall(c.fence.name, c.fence.args)
    ELSE IF RuleCall(c, tools) THEN ParsedCall(c.call.name, c.call.args)
    ELSE IF RuleMention(c, tools) THEN first_mention(tools, c.mention)
    ELSE IF RuleKeyword(c, tools) THEN parse_guess(c, tools)
    ELSE ParseErr("unparseable", TRUE)

\* C15: the result of parse_response is the result of the first rule, in the order
\* EOF, fenced block, call syntax, tool mention, keyword fallback, that matches
\* the text, and the parse error that echoes the text when none does.
C15_OrderedCascade ==
    (pure.fn = "parse_response" /\ pure.outs # <<>>)
    => pure.outs[1] = FirstMatch(pure.arg, pure.tools)

\* C16: for a text that does not end in EOF and whose fenced block holds an object
\* with an args key and the name of an available tool, parse_response returns
\* the call with that name and those arguments, whatever else the text holds.
C16_FencedCallExact ==
    (/\ pure.fn = "parse_response" /\ pure.outs # <<>>
     /\ ~pure.arg.eof
     /\ RuleFence(pure.arg, pure.tools))
    => pure.outs[1] = ParsedCall(pure.arg.fence.name, pure.arg.fence.args)

\* A fenced read call has been parsed out of a text that also holds another call
\* in call syntax, a tool mention and the exit vocabulary.
C16_Witness ==
    /\ pure.fn = "parse_response" /\ pure.outs # <<>>
    /\ ~pure.arg.eof
    /\ RuleFence(pure.arg, pure.tools)
    /\ RuleCall(pure.arg, pure.tools)
    /\ pure.arg.call.args # pure.arg.fence.args
    /\ "execute" \in pure.arg.mention.names
    /\ pure.arg.keyword
    /\ pure.outs[1] = ParsedCall("read", "file_path" :> <<"a">>)

DropOldest(msgs, k) == <<msgs[1]>> \o SubSeq(msgs, 2 + k, Len(msgs))

Bounded(msgs) == total_tokens(msgs) <= max_tokens \/ Len(msgs) <= 2

\* C18: _trim_history leaves the system message followed by a suffix of the other
\* messages, the shortest removal of oldest messages after which the estimate is
\* at most the ceiling or two messages remain.
C18_TrimOldestFirst ==
    (pure.fn = "_trim_history" /\ pure.outs # <<>>)
    => LET msgs == pure.arg
           out == pure.outs[1]
       IN  /\ Bounded(out)
           /\ \E k \in 0..(Len(msgs) - 1) :
                 /\ out = DropOldest(msgs, k)
                 /\ \A j \in 0..(k - 1) : ~Bounded(DropOldest(msgs, j))

\* _trim_history has removed some but not all of the messages it could remove.
C18_Witness ==
    /\ pure.fn = "_trim_history" /\ pure.outs # <<>>
    /\ Len(pure.outs[1]) < Len(pure.arg)
    /\ Len(pure.outs[1]) > 2

\* C19: _trim_history changes nothing in a conversation whose estimate is at most
\* the ceiling, and changes nothing when run again on what it left.
C19_TrimIdempotent ==
    (pure.fn = "_trim_history" /\ pure.outs # <<>>)
    => /\ total_tokens(pure.arg) <= max_tokens => pure.outs[1] = pure.arg
       /\ Len(pure.outs) = 2 => pure.outs[2] = pure.outs[1]

\* _trim_history has run twice on a conversation it had to shorten.
C19_Witness ==
    /\ pure.fn = "_trim_history"
    /\ Len(pure.outs) = 2
    /\ pure.outs[1] # pure.arg
    /\ pure.outs[2] = pure.outs[1]

\* C20: the conversation a served turn sent to the model backend had an estimate of
\* at most the ceiling or at most two messages.
C20_SentConversationBounded ==
    [][(/\ Served
        /\ last'.path = "turn"
        /\ "send" \in Range(last'.ev)
        /\ last'.sid \in DOMAIN sessions)
       => Bounded(add_user_message(sessions[last'.sid], TurnText(last')).messages)]_vars

\* C11: of the requests that complete one interaction id concurrently, at most one
\* records the reply, and every other one answers the interaction error.
C11_ConsumedOnce ==
    /\ \A t, u \in DOMAIN inflight :
          (/\ t # u
           /\ inflight[t].req.interaction_id = inflight[u].req.interaction_id
           /\ "record_reply" \in Range(inflight[t].ev))
          => "record_reply" \notin Range(inflight[u].ev)
    /\ \A t \in DOMAIN inflight :
          (/\ inflight[t].pc = "done"
           /\ inflight[t].route = "complete"
           /\ "record_reply" \notin Range(inflight[t].ev))
          => /\ inflight[t].resp.type = "error"
             /\ inflight[t].resp.message = "interaction_missing"

\* a request that has changed its session and has more to do on it
Mutating(l) == l.pc # "done" /\ l.ev # <<>>

\* C12: no two requests in flight on one session are both between their first and
\* their last change of that session.
C12_OneTurnAtATime ==
    \A t, u \in DOMAIN inflight :
        (t # u /\ inflight[t].sid = inflight[u].sid)
        => ~(Mutating(inflight[t]) /\ Mutating(inflight[u]))

---------------------------------------------------------------------------
(* The sensitive-command gate *)

Classified == pure.fn \in GateFns /\ pure.outs # <<>>

\* C21: whenever the command cannot be split into shell words, the gate answers
\* sensitive, whatever the rule list (an empty one included).
C21_FailClosed ==
    (Classified /\ ~shlex_split(pure.arg.command).ok) => pure.outs[1].sensitive

HasRule(rules, rule) == \E i \in DOMAIN rules : rules[i] = rule

\* C22: with the plain rm rule configured, 'rm -rf /' is answered sensitive with
\* the dangerous-recursive-delete description, and 'rm -rf /tmp/x' is answered
\* sensitive with the rm rule's own description.
C22_CompoundBeforePlain ==
    (/\ pure.fn = "main.is_sensitive_command"
     /\ pure.outs # <<>>
     /\ HasRule(pure.arg.rules, Rule_rm))
    => /\ pure.arg.command = Cmd_rm
            => pure.outs[1] = [sensitive |-> TRUE,
                               description |-> "dangerous recursive delete"]
       /\ pure.arg.command = Cmd_rm_tmp
            => pure.outs[1] = [sensitive |-> TRUE, description |-> Rule_rm.description]

\* the three ways a rule matches a tokenized command, as the claim lists them
MatchesAsStated(rule, cmd_parts, command) ==
    \/ cmd_parts # <<>> /\ Lower(cmd_parts[1]) = Lower(rule.pattern)
    \/ cmd_parts # <<>> /\ StartsWith(Lower(cmd_parts[1]), Lower(rule.pattern) \o <<" ">>)
    \/ Contains(Lower(rule.pattern), command)

InScope(rule) == rule.os = {} \/ current_os \in rule.os

MatchingRules(rules, cmd_parts, command) ==
    { i \in DOMAIN rules : InScope(rules[i]) /\ MatchesAsStated(rules[i], cmd_parts, command) }

Least(S) == CHOOSE i \in S : \A j \in S : i <= j

\* C23: a command that tokenizes is answered sensitive exactly when some rule in
\* scope for the platform matches it, with the description of the first such rule.
C23_SensitiveIffRuleMatches ==
    (Classified /\ shlex_split(pure.arg.command).ok)
    => LET matching == MatchingRules(pure.arg.rules, shlex_split(pure.arg.command).parts,
                                     pure.arg.command)
       IN  /\ pure.outs[1].sensitive <=> matching # {}
           /\ matching # {}
                => pure.outs[1].description = pure.arg.rules[Least(matching)].description

---------------------------------------------------------------------------
(* The shape of every /api/chat response *)

ResponseTypes == {"tool_result", "interaction_required", "warning", "error", "exit"}

\* C24: every response of chat, whatever path produced it, carries the session id
\* and a type that is one of tool_result, interaction_required, warning, error, exit.
C24_ResponseShape ==
    last.busy => /\ last.resp.type \in ResponseTypes
                 /\ last.resp.session_id # NoneId

---------------------------------------------------------------------------
(* The attempts of one send_request *)

Sent == pure.fn = "send_request" /\ pure.outs # <<>>

Posts(log) == {i \in DOMAIN log : log[i].kind = "post"}
Sleeps(log) == {i \in DOMAIN log : log[i].kind = "sleep"}

\* the attempt that got an answer whose status is neither 200 nor 5xx
Refused(script, k) ==
    /\ script[k] \in {"4xx", "3xx"}
    /\ \A j \in 1..(k - 1) : script[j] \in Retryable

\* C25: an answer whose status is neither 200 nor 5xx ends the send at that
\* attempt with an error carrying the status and the body: nothing is waited and
\* nothing is posted after it, however many retries remain.
C25_OtherStatusNotRetried ==
    Sent => \A k \in 1..(max_retries + 1) :
                Refused(pure.arg.script, k)
                => LET r == pure.outs[1]
                   IN  /\ ~r.ok
                       /\ r.err = "status"
                       /\ r.details.status_code = StatusCode(pure.arg.script[k])
                       /\ r.details.text = ResponseText(pure.arg.script[k])
                       /\ r.attempts = k
                       /\ Cardinality(Posts(r.log)) = k
                       /\ r.log[Len(r.log)].kind = "post"
                       /\ Cardinality(Sleeps(r.log)) = k - 1

\* A 404 on the very first attempt, with every retry still available, and the
\* error carries 404 and the body.
C25_Witness ==
    /\ Sent
    /\ pure.arg.script[1] = "4xx"
    /\ pure.arg.script[2] = "ok"
    /\ pure.outs[1].attempts = 1
    /\ pure.outs[1].details.status_code = 404
    /\ pure.outs[1].log = <<Post(RequestData(pure.arg.messages))>>

\* C26: the log of one send alternates post, wait, post, ..., post: between two
\* consecutive attempts exactly one wait of retry_delay seconds, whatever the
\* attempt number and the kind of failure; every post carries the same payload;
\* nothing is waited after the last attempt.
C26_FixedDelayBetweenAttempts ==
    Sent => LET r == pure.outs[1]
                log == r.log
            IN  /\ Len(log) = 2 * r.attempts - 1
                /\ \A i \in DOMAIN log :
                      IF i % 2 = 1
                      THEN log[i] = Post(RequestData(pure.arg.messages))
                      ELSE log[i].kind = "sleep" /\ log[i].seconds = retry_delay
                /\ log[Len(log)].kind = "post"

\* Four attempts failing in four different ways, three waits of retry_delay between
\* them, none after the last.
C26_Witness ==
    /\ Sent
    /\ SubSeq(pure.arg.script, 1, 4) = <<"timeout", "5xx", "badjson", "conn">>
    /\ Len(pure.outs[1].log) = 7
    /\ pure.outs[1].log[6].seconds = retry_delay
    /\ pure.outs[1].log[7].kind = "post"
    /\ Len(pure.arg.messages) = 4

---------------------------------------------------------------------------
(* The informational-tool flag *)

\* the tool of the last result a served request recorded ("" when it recorded none)
LastRecordedTool(l) ==
    IF Range(TurnEvents(l.ev)) \cap RecordEvents # {} THEN l.call.name
    ELSE IF "record_reply" \in Range(l.ev) THEN "interact"
    ELSE ""

FlagOf(ss, sid) == IF sid \in DOMAIN ss THEN ss[sid].last_tool_was_info ELSE FALSE

\* C27: in every step, a session's flag changes only through a recorded tool
\* result of a request served for that session, and is then true exactly when the
\* tool of that result is info; the failed result recorded by the loop guard is an
\* info result and leaves the flag up.
C27_FlagFollowsLastResult ==
    [][\A sid \in DOMAIN sessions' :
          IF Served /\ last'.sid = sid /\ LastRecordedTool(last') # ""
          THEN FlagOf(sessions', sid) = (LastRecordedTool(last') = "info")
          ELSE FlagOf(sessions', sid) = FlagOf(sessions, sid)]_vars

\* The loop guard has fired on the second request of a session and the flag is
\* still up.
C27_Witness ==
    /\ last.busy
    /\ calls = 2
    /\ last.resp.type = "warning"
    /\ LastRecordedTool(last) = "info"
    /\ "record_failed" \in Range(last.ev)
    /\ FlagOf(sessions, last.sid)

---------------------------------------------------------------------------
(* One turn over every kind of model text *)

Turned == pure.fn = "process_message" /\ pure.outs # <<>>

NoRuleMatches(c, tools) == FirstMatch(c, tools) = ParseErr("unparseable", TRUE)

\* C28: when no rule of the cascade matches the text, parse_response returns the
\* error that carries the text, and the turn answers an error response echoing the
\* text, having invoked no tool, recorded no tool result and stored no pending
\* interaction.
C28_NoMatchEchoesContent ==
    (Turned /\ NoRuleMatches(pure.arg.content, pure.arg.agent.tool_descriptions))
    => LET out == pure.outs[1]
       IN  /\ parse_response(Body("content", pure.arg.content),
                             pure.arg.agent.tool_descriptions)
                 = ParseErr("unparseable", TRUE)
           /\ out.resp.type = "error"
           /\ out.resp.echo
           /\ Dispatches(out.ev) = 0
           /\ Range(out.ev) \cap RecordEvents = {}
           /\ out.a.pending_interactions = pure.arg.agent.pending_interactions

\* the call the engine makes of the EOF sentinel
EOF_CALL == ToolCall("exit", "message" :> DEFAULT_MESSAGE)

\* the same text with, instead of the final EOF, a fenced exit call
WithExitCall(c) ==
    [c EXCEPT !.eof = FALSE, !.fence = Fenced("exit", EOF_CALL.args).fence]

\* C29: a turn whose text ends in EOF dispatches the exit call with the default
\* completion message in that same call, as a turn does whose text holds that exit
\* call: the exit tool is invoked, its result is recorded as the last message, and
\* the response has type exit.
C29_EOFBecomesExit ==
    (Turned /\ pure.arg.content.eof)
    => LET out == pure.outs[1]
           parsed == process_message(pure.arg.agent, "hi",
                         IO(ScriptOk, Body("content", WithExitCall(pure.arg.content)),
                            Env(TRUE)), 0)
       IN  /\ parse_response(Body("content", pure.arg.content),
                             pure.arg.agent.tool_descriptions) = ParsedEOF
           /\ out.call = EOF_CALL
           /\ out.ev = <<"append_user", "send", "append_assistant", "invoke", "record_ok">>
           /\ out.a.messages[Len(out.a.messages)].what = "tool_result"
           /\ out.resp.type = "exit"
           /\ out = parsed

\* A text that holds a fenced call of another tool and ends in EOF has been answered
\* with type exit.
C29_Witness ==
    /\ Turned
    /\ pure.arg.content.eof
    /\ pure.arg.content.fence.present
    /\ pure.arg.content.fence.name = "read"
    /\ pure.arg.agent.last_tool_was_info
    /\ pure.outs[1].resp.type = "exit"
    /\ pure.outs[1].call = EOF_CALL

---------------------------------------------------------------------------
(* What a dispatch leaves behind *)

\* C30: a served request whose turn invoked a registered tool recorded the tool's
\* result, as the last message of the conversation, and answered with type exit
\* when the tool is exit and its result reports success and the terminate flag,
\* and with type tool_result otherwise.
C30_DispatchRecordsThenAnswers ==
    (last.busy /\ "invoke" \in Range(TurnEvents(last.ev)))
    => LET a == sessions[last.sid]
           exiting == /\ last.call.name = "exit"
                      /\ exit_program(last.call.args).success
                      /\ exit_program(last.call.args).exit
       IN  /\ Range(TurnEvents(last.ev)) \cap RecordEvents # {}
           /\ a.messages[Len(a.messages)].what = "tool_result"
           /\ last.resp.type = (IF exiting THEN "exit" ELSE "tool_result")

---------------------------------------------------------------------------
(* A tool that is described but has no function *)

Unregistered ==
    /\ Turned
    /\ pure.outs[1].call.name # ""
    /\ ~get_tool_function(pure.arg.agent, pure.outs[1].call.name)

Intercepted ==
    pure.outs[1].call.name = "info" /\ was_last_tool_info(pure.arg.agent)

\* C31 as stated: a turn that resolves to a tool without a function invokes no
\* tool, records a failed result and answers with type error.
C31_UnknownToolError ==
    Unregistered
    => LET out == pure.outs[1]
       IN  /\ "invoke" \notin Range(out.ev)
           /\ "record_failed" \in Range(out.ev)
           /\ out.a.messages[Len(out.a.messages)].what = "tool_result"
           /\ out.resp.type = "error"

\* C31, amended: a turn that resolves to a tool without a function invokes no tool
\* and records a failed result as the last message; it answers with type error,
\* except that an info call met by the loop guard answers with the guard's warning.
C31_UnknownToolRecorded ==
    Unregistered
    => LET out == pure.outs[1]
       IN  /\ "invoke" \notin Range(out.ev)
           /\ Count(out.ev, "record_failed") = 1
           /\ out.a.messages[Len(out.a.messages)].what = "tool_result"
           /\ Len(out.a.messages) = Len(pure.arg.agent.messages) + 3
           /\ out.a.pending_interactions = pure.arg.agent.pending_interactions
           /\ IF Intercepted
              THEN out.resp.type = "warning"
              ELSE out.resp.type = "error" /\ out.resp.message = "unknown_tool"

\* The read tool, described but without a function, has been called: failed result
\* recorded, error answered.
C31_Witness ==
    /\ Unregistered
    /\ pure.outs[1].call.name = "read"
    /\ pure.outs[1].resp.type = "error"
    /\ pure.outs[1].resp.message = "unknown_tool"
    /\ "record_failed" \in Range(pure.outs[1].ev)

---------------------------------------------------------------------------
(* The result body inside a recorded tool result *)

Recorded == pure.fn = "add_tool_result" /\ pure.outs # <<>>

DigitValue(c) == CHOOSE d \in 0..9 : DigitChar(d) = c

\* the number a decimal text states
RECURSIVE Stated(_)
Stated(digits) ==
    IF digits = <<>> THEN 0
    ELSE 10 * Stated(SubSeq(digits, 1, Len(digits) - 1)) + DigitValue(digits[Len(digits)])

\* C32: the text embedded for a result body is the body itself when the body has at
\* most 4000 characters; otherwise it is the body's first 4000 characters followed
\* by the marker, whose number is the length of the whole body.  The recorded
\* message has the length of that text plus its header.
C32_ResultBodyCapped ==
    Recorded
    => LET body == pure.arg.body
           text == pure.outs[1].text
           a == pure.outs[1].a
           digits == SubSeq(text, RESULT_CAP + Len(MARKER_HEAD) + 1,
                            Len(text) - Len(MARKER_TAIL))
       IN  /\ IF Len(body) <= 4000
              THEN text = body
              ELSE /\ SubSeq(text, 1, 4000) = SubSeq(body, 1, 4000)
                   /\ SubSeq(text, 4001, 4000 + Len(MARKER_HEAD)) = MARKER_HEAD
                   /\ SubSeq(text, Len(text) - Len(MARKER_TAIL) + 1, Len(text)) = MARKER_TAIL
                   /\ digits # <<>>
                   /\ Stated(digits) = Len(body)
           /\ a.messages[Len(a.messages)].len
                 = 20 + ArgsLen("command" :> Cmd_ls, {"command"}) + Len(text)

\* A body of 4001 characters has been embedded as 4000 characters and the marker
\* stating 4001.
C32_Witness ==
    /\ Recorded
    /\ Len(pure.arg.body) = 4001
    /\ Len(pure.outs[1].text) = 4000 + Len(MARKER_HEAD) + 4 + Len(MARKER_TAIL)
    /\ pure.outs[1].text[4000] = pure.arg.body[4000]

---------------------------------------------------------------------------
(* Expiry of pending interactions *)

Expired(id) ==
    /\ id \in DOMAIN interaction_requests
    /\ now - interaction_requests[id].created_at > INTERACTION_TTL

PendingAnywhere(ss) == UNION {DOMAIN ss[sid].pending_interactions : sid \in DOMAIN ss}

\* C33: a request served while a stored interaction is older than the time to live
\* leaves that interaction stored nowhere: neither in the table of interaction
\* requests nor among the pending interactions of any session.
C33_ExpiredPurged ==
    [][Served
       => \A id \in DOMAIN interaction_requests :
             Expired(id) => /\ id \notin DOMAIN interaction_requests'
                            /\ id \notin PendingAnywhere(sessions')]_vars

\* What keeps such an entry: a request served for a session that stays leaves in
\* place every pending interaction the table of interaction requests does not hold.
UnlistedPendingStays ==
    [][Served
       => \A sid \in DOMAIN sessions \cap DOMAIN sessions' :
             \A id \in DOMAIN sessions[sid].pending_interactions :
                id \notin DOMAIN interaction_requests
                   => id \in DOMAIN sessions'[sid].pending_interactions]_vars

---------------------------------------------------------------------------
(* Completing the interaction ids a caller was handed *)

\* Every interaction issued so far is within its time to live: none can be older
\* than the clock.
NothingExpired == now <= INTERACTION_TTL

\* The request being served quotes a pending interaction of its own session.
QuotesOwnPending ==
    /\ last'.req.message # EmptyText
    /\ last'.req.session_id \in DOMAIN sessions
    /\ last'.req.interaction_id
          \in DOMAIN sessions[last'.req.session_id].pending_interactions

\* C34: while no interaction can have expired, a request of a session that quotes
\* one of that session's pending interactions (each of them was handed out in an
\* interaction_required response) is routed to completion and consumes the
\* pending entry; it is not processed as a new user message.
C34_HandedIdCompletes ==
    [][(Served /\ NothingExpired /\ QuotesOwnPending)
       => /\ last'.path = "complete"
          /\ last'.req.interaction_id
                \notin DOMAIN sessions'[last'.req.session_id].pending_interactions]_vars

\* The same for the pending interactions the table of interaction requests lists.
ListedIdCompletes ==
    [][(Served /\ NothingExpired /\ QuotesOwnPending
          /\ last'.req.interaction_id \in DOMAIN interaction_requests)
       => /\ last'.path = "complete"
          /\ last'.req.interaction_id
                \notin DOMAIN sessions'[last'.req.session_id].pending_interactions]_vars

\* C35: every response of type interaction_required carries has_continuation =
\* FALSE, whether it answers a turn or the completion of an interaction.
C35_SuspensionHasNoContinuation ==
    (last.busy /\ last.resp.type = "interaction_required")
       => ~last.resp.has_continuation

\* The same for the responses of the turn path alone.
TurnSuspensionHasNoContinuation ==
    (last.busy /\ last.path = "turn" /\ last.resp.type = "interaction_required")
       => ~last.resp.has_continuation

---------------------------------------------------------------------------
(* An interaction id quoted through another session *)

\* The request being served quotes an interaction pending in session A and names
\* another session (or none).
QuotesPendingOf(A) ==
    /\ Served
    /\ last'.req.message # EmptyText
    /\ last'.req.session_id # A
    /\ last'.req.interaction_id \in DOMAIN sessions[A].pending_interactions

\* What the table of interaction requests keeps of the pending interaction.
Issued(irs, id) == [session_id |-> irs[id].session_id, created_at |-> irs[id].created_at]

\* C36: a request that names a session other than A and quotes an interaction
\* pending in A leaves A's conversation and pending interactions as they were,
\* leaves an unexpired interaction of A listed under A with its creation time, and
\* records no reply of the human in any conversation.
C36_ConsumedOnlyByOwner ==
    [][\A A \in DOMAIN sessions :
          QuotesPendingOf(A)
             => /\ A \in DOMAIN sessions'
                /\ sessions'[A] = sessions[A]
                /\ "record_reply" \notin Range(last'.ev)
                /\ "pop_pending" \notin Range(last'.ev)
                /\ \A id \in DOMAIN interaction_requests :
                      (id = last'.req.interaction_id /\ ~Expired(id))
                         => /\ id \in DOMAIN interaction_requests'
                            /\ Issued(interaction_requests', id)
                                  = Issued(interaction_requests, id)]_vars

\* A request of another session has just been routed to completion with an
\* interaction that is pending in session A.
C36_Witness ==
    /\ last.busy
    /\ last.path = "complete"
    /\ last.req.session_id = last.sid
    /\ \E A \in DOMAIN sessions \ {last.sid} :
          last.req.interaction_id \in DOMAIN sessions[A].pending_interactions

---------------------------------------------------------------------------
(* The continuation flag on the turn path *)

\* The request being served went down the turn path of chat().
ServedTurn == Served /\ last'.path = "turn"

\* The session's continuation flag as the request finds it.
FlagSet(req) ==
    /\ req.session_id \in DOMAIN continuation_flags
    /\ continuation_flags[req.session_id]

\* The input the turn appended to the conversation.
ContinuedIffFlagged ==
    IF last'.req.continue /\ FlagSet(last'.req)
    THEN /\ "append_continue" \in Range(last'.ev)
         /\ "append_user" \notin Range(last'.ev)
    ELSE /\ "append_user" \in Range(last'.ev)
         /\ "append_continue" \notin Range(last'.ev)

Suspends == last'.resp.type = "interaction_required"

\* C37: on the turn path the continue input replaces the caller's message exactly
\* when the request asks to continue and the session's flag is set, and otherwise
\* the caller's message is the new user input; the flag is cleared before the
\* turn runs (a turn that raises leaves it cleared), and after a turn that
\* returns the session's flag is FALSE exactly when the response is
\* interaction_required, and the response carries the flag as has_continuation.
C37_ContinuationFlag ==
    [][ServedTurn
       => /\ ContinuedIffFlagged
          /\ IF last'.resp.status = 500
             THEN ~continuation_flags'[last'.sid]
             ELSE /\ ~continuation_flags'[last'.sid] <=> Suspends
                  /\ last'.resp.has_continuation = continuation_flags'[last'.sid]]_vars

\* A request to continue has just been served as a continuation, and its turn
\* suspended for the human.
C37_Witness ==
    /\ last.busy
    /\ last.path = "turn"
    /\ last.req.continue
    /\ "append_continue" \in Range(last.ev)
    /\ last.resp.type = "interaction_required"
    /\ ~continuation_flags[last.sid]

---------------------------------------------------------------------------
(* Termination of the trim *)

\* while total_tokens > self.max_tokens and len(self.messages) > 2
LoopCondition(msgs) == total_tokens(msgs) > max_tokens /\ Len(msgs) > 2

\* C38: on a conversation of the engine (one system message, then what the add
\* methods appended) every test of the loop condition that holds finds a
\* non-system message, each iteration removes exactly one message, the loop ends
\* with its condition false, and it removes at most length - 2 messages.
C38_TrimTerminates ==
    (pure.fn = "_trim_history" /\ pure.outs # <<>>)
    => LET tests == trim_tests(pure.arg)
           removals == Len(tests) - 1
       IN  /\ \A i \in DOMAIN tests : LoopCondition(tests[i]) => NonSystem(tests[i]) # {}
           /\ \A i \in 1..removals : Len(tests[i + 1]) = Len(tests[i]) - 1
           /\ ~LoopCondition(tests[Len(tests)])
           /\ pure.outs[1] = tests[Len(tests)]
           /\ removals = Len(pure.arg) - Len(pure.outs[1])
           /\ removals > 0 => removals <= Len(pure.arg) - 2

\* _trim_history has removed as many messages as it may: all but two.
C38_Witness ==
    /\ pure.fn = "_trim_history" /\ pure.outs # <<>>
    /\ Len(pure.arg) = MaxMsgs + 1
    /\ Len(pure.outs[1]) = 2
    /\ LoopCondition(pure.outs[1]) = FALSE
    /\ total_tokens(pure.outs[1]) > max_tokens

\* The conversations the engine keeps: one system message, which is the first.
OneSystemMessage ==
    \A sid \in DOMAIN sessions :
       /\ Len(sessions[sid].messages) >= 1
       /\ NonSystem(sessions[sid].messages) = 2..Len(sessions[sid].messages)

====
